---- MODULE Spec2Model ----
(***************************************************************************)
(* The request-orchestration logic of the Sanyai backend (server/index.js): *)
(* POST /chat, GET /chat/:id, GET /chats and POST /smart-prompt over the    *)
(* chats and messages tables of schema.sql.                                 *)
(*                                                                          *)
(* JavaScript strings are TLA+ strings.  A JSON object is a record whose    *)
(* DOMAIN is the set of keys that are present, so that "undefined" is the   *)
(* absence of a key.  Every await of a handler ends one action.             *)
(***************************************************************************)
EXTENDS Integers, Sequences, FiniteSets, TLC

\* Number of HTTP requests a behaviour serves.
MaxReq == 2
\* Largest value Date.now() returns (the clock starts at 0).
MaxClock == 1

Reqs == 1..MaxReq

VARIABLES
  supabase,      \* TRUE iff the Supabase client was created (index.js `supabase`)
  HF_API_KEY,    \* TRUE iff the Hugging Face token is configured
  SERP_API_KEY,  \* TRUE iff the SerpApi key is configured
  chats,         \* table chats: the sequence of chat ids in creation order
  messages,      \* table messages: the rows in creation order
  clock,         \* the last value Date.now() returned
  served,        \* number of requests received so far
  req,           \* req[r]: the handler invocation serving request r
  sp,            \* the POST /smart-prompt exchange, Null before the request
  ui             \* the state of the client's App component

vars == <<supabase, HF_API_KEY, SERP_API_KEY, chats, messages, clock, served, req, sp, ui>>

----------------------------------------------------------------------------
(* JavaScript values *)

\* obj[k] when k is present, "undefined" (as a template literal prints it) otherwise.
Get(obj, k) == IF k \in DOMAIN obj THEN obj[k] ELSE "undefined"

\* Truthiness of the string-valued key k of obj.
Truthy(obj, k) == k \in DOMAIN obj /\ obj[k] # ""

\* Truthiness of the boolean-valued key k of obj.
TruthyFlag(obj, k) == k \in DOMAIN obj /\ obj[k] = TRUE

\* The restriction of the record obj to the keys in S.
Pick(obj, S) == [k \in S |-> obj[k]]

\* The JSON null, and the object with no key.
Null == [null |-> TRUE]
EmptyObject == [k \in {} |-> 0]

RECURSIVE Join(_, _)
\* parts.join(sep)
Join(parts, sep) ==
  IF parts = <<>> THEN ""
  ELSE IF Len(parts) = 1 THEN parts[1]
  ELSE parts[1] \o sep \o Join(Tail(parts), sep)

\* seq.slice(0, n)
Slice(seq, n) == SubSeq(seq, 1, IF Len(seq) < n THEN Len(seq) ELSE n)

\* The elements of a sequence.
Range(seq) == {seq[i] : i \in DOMAIN seq}

----------------------------------------------------------------------------
(* Token counting *)

\* The tokenizer is a third-party library; the count is modelled by the
\* handler's own character-count formula, Math.ceil(text.length / 4).
countTokens(text) == (Len(text) + 3) \div 4

\* `${a}...` pieces: the value of the key k of obj, kept under the key name
\* only when it is defined ({name: obj.k} with obj.k undefined has no name).
Opt(name, obj, k) == IF k \in DOMAIN obj THEN name :> obj[k] ELSE EmptyObject

----------------------------------------------------------------------------
(* Depth instructions (the depthInstructions table of both branches) *)

DepthLabels == {"Concise", "Short", "Medium", "Large"}

depthInstructions ==
  [Concise |-> "IMPORTANT CONSTRAINT: Keep your response extremely concise, approximately 100-150 words.",
   Short |-> "IMPORTANT CONSTRAINT: Keep your response short and to the point, approximately 200-300 words.",
   Medium |-> "IMPORTANT CONSTRAINT: Provide a standard medium-length response, approximately 400-600 words.",
   Large |-> "IMPORTANT CONSTRAINT: Provide a very detailed, comprehensive, and in-depth response, approximately 800-1000 words."]

\* depthInstructions[depth] || depthInstructions['Short']
DepthInstruction(depth) ==
  IF depth \in DepthLabels THEN depthInstructions[depth] ELSE depthInstructions["Short"]

----------------------------------------------------------------------------
(* performWebSearch *)

IsTruthyString(s) == s # ""

\* b.snippet || b.title || b.text, "" standing for a falsy result
BlockChunk(b) ==
  IF Truthy(b, "snippet") THEN b.snippet
  ELSE IF Truthy(b, "title") THEN b.title
  ELSE IF Truthy(b, "text") THEN b.text
  ELSE ""

OrganicSnippet(r) == IF Truthy(r, "snippet") THEN r.snippet ELSE ""

\* The chunks of a search response, before the limit to 15.
Chunks(data) ==
  LET fromBlocks ==
        IF "text_blocks" \in DOMAIN data
        THEN SelectSeq([i \in DOMAIN data.text_blocks |-> BlockChunk(data.text_blocks[i])],
                       IsTruthyString)
        ELSE <<>>
  IN IF Len(fromBlocks) = 0 /\ "organic_results" \in DOMAIN data
     THEN SelectSeq([i \in DOMAIN data.organic_results |-> OrganicSnippet(data.organic_results[i])],
                    IsTruthyString)
     ELSE fromBlocks

OrganicSource(r) == Opt("title", r, "title") @@ Opt("link", r, "link") @@ Opt("favicon", r, "favicon")

ReferenceSource(r) ==
  ("title" :> (IF Truthy(r, "title") THEN r.title
               ELSE IF Truthy(r, "source") THEN r.source ELSE "Source"))
  @@ Opt("link", r, "link") @@ Opt("favicon", r, "source_icon")

\* favicon: null is kept as an absent key (no code reads it).
BlockSource(b) ==
  ("title" :> (IF Truthy(b, "title") THEN b.title
               ELSE IF Truthy(b, "source") THEN b.source ELSE "Source"))
  @@ (IF Truthy(b, "link") THEN "link" :> b.link ELSE Opt("link", b, "source_url"))

HasLink(s) == Truthy(s, "link")

RECURSIVE MergeUnique(_, _)
\* blockSources.forEach(bs => { if (!sources.find(same link) && sources.length < 5) push })
MergeUnique(sources, blockSources) ==
  IF blockSources = <<>> THEN sources
  ELSE LET bs == Head(blockSources)
           found == \E i \in DOMAIN sources : HasLink(sources[i]) /\ sources[i].link = bs.link
       IN MergeUnique(IF ~found /\ Len(sources) < 5 THEN Append(sources, bs) ELSE sources,
                      Tail(blockSources))

\* Sources merging the text-block sources whatever the number of sources found.
SourcesAlwaysMerged(data) ==
  LET s1 == IF "organic_results" \in DOMAIN data
            THEN [i \in DOMAIN Slice(data.organic_results, 5) |-> OrganicSource(data.organic_results[i])]
            ELSE <<>>
      s2 == IF Len(s1) = 0 /\ "references" \in DOMAIN data
            THEN [i \in DOMAIN Slice(data.references, 5) |-> ReferenceSource(data.references[i])]
            ELSE s1
  IN IF "text_blocks" \in DOMAIN data
     THEN MergeUnique(s2, SelectSeq([i \in DOMAIN data.text_blocks |-> BlockSource(data.text_blocks[i])],
                                    HasLink))
     ELSE s2

\* The sources of a search response (strategies 1 to 3).
Sources(data) ==
  LET s1 == IF "organic_results" \in DOMAIN data
            THEN [i \in DOMAIN Slice(data.organic_results, 5) |-> OrganicSource(data.organic_results[i])]
            ELSE <<>>
      s2 == IF Len(s1) = 0 /\ "references" \in DOMAIN data
            THEN [i \in DOMAIN Slice(data.references, 5) |-> ReferenceSource(data.references[i])]
            ELSE s1
  IN IF Len(s2) < 3 /\ "text_blocks" \in DOMAIN data
     THEN MergeUnique(s2, SelectSeq([i \in DOMAIN data.text_blocks |-> BlockSource(data.text_blocks[i])],
                                    HasLink))
     ELSE s2

\* performWebSearch joining every chunk, without the limit to 15.
performWebSearchUnlimited(key, fetched) ==
  IF ~key THEN Null
  ELSE IF fetched.throws THEN Null
  ELSE IF Truthy(fetched.data, "error") THEN Null
  ELSE [context |-> Join(Chunks(fetched.data), "\n\n"),
        sources |-> Sources(fetched.data)]

\* performWebSearch(query): fetched is what fetch(url) and res.json() produce,
\* [throws |-> TRUE] for a network or JSON error, [throws |-> FALSE, data |-> d] otherwise.
performWebSearch(key, fetched) ==
  IF ~key THEN Null
  ELSE IF fetched.throws THEN Null
  ELSE IF Truthy(fetched.data, "error") THEN Null
  ELSE [context |-> Join(Slice(Chunks(fetched.data), 15), "\n\n"),
        sources |-> Sources(fetched.data)]

----------------------------------------------------------------------------
(* handleWebSearchFlow *)

NoWebResults == "No web results found. Please answer based on your general knowledge."

\* searchResult?.context || "No web results found. ..."
SearchContext(searchResult) ==
  IF Truthy(searchResult, "context") THEN searchResult.context ELSE NoWebResults

\* searchResult?.sources || []
SearchSources(searchResult) ==
  IF "sources" \in DOMAIN searchResult THEN searchResult.sources ELSE <<>>

\* The prompt given to the synthesis model.
WebPrompt(query, context, depth) ==
  "\n    ### USER QUERY:\n    " \o query
  \o "\n\n    ### WEB SEARCH CONTEXT:\n    " \o context
  \o "\n\n    ### INSTRUCTIONS:\n    1. Answer the user's query comprehensively using the provided context."
  \o "\n    2. Cite the information implicitly by synthesizing it."
  \o "\n    3. " \o DepthInstruction(depth)
  \o "\n    4. Format nicely with Markdown.\n    "

\* The request handleWebSearchFlow sends to the synthesis model.
SynthesisRequest(query, context, depth) ==
  [model |-> "moonshotai/Kimi-K2-Instruct-0905:groq",
   messages |->
     << [role |-> "system",
         content |-> "You are Kimi, an intelligent AI assistant capable of synthesizing web search results."],
        [role |-> "user", content |-> WebPrompt(query, context, depth)] >>,
   max_tokens |-> 2048]

\* The heading of the sources section (the globe emoji of the source is left out).
SourcesHeader == "\n\n---\n### Sources\n"

\* SourceLine numbering from the 0-based index.
SourceLineFromZero(i, s) ==
  ToString(i) \o ". [" \o Get(s, "title") \o "](" \o Get(s, "link") \o ")\n"

\* `${i+1}. [${s.title}](${s.link})\n` for the source s at 0-based index i
SourceLine(i, s) ==
  ToString(i + 1) \o ". [" \o Get(s, "title") \o "](" \o Get(s, "link") \o ")\n"

RECURSIVE AppendSources(_, _, _)
\* sources.forEach((s, i) => { response += line }), from index i on
AppendSources(response, sources, i) ==
  IF i >= Len(sources) THEN response
  ELSE AppendSources(response \o SourceLine(i, sources[i + 1]), sources, i + 1)

\* completion.choices[0]?.message?.content, "" when it is undefined
CompletionContent(completion) ==
  IF Len(completion.choices) > 0
       /\ "message" \in DOMAIN completion.choices[1]
       /\ Truthy(completion.choices[1].message, "content")
  THEN completion.choices[1].message.content
  ELSE ""

\* The part of handleWebSearchFlow after the search: completion is the outcome
\* of openai.chat.completions.create, [throws |-> TRUE] when it rejects.  A
\* completion without choices makes completion.choices[0] throw inside the try.
SynthesisResult(searchResult, completion) ==
  IF completion.throws \/ "choices" \notin DOMAIN completion
  THEN [response |-> "Error generating web search response.", usage |-> EmptyObject]
  ELSE LET sources == SearchSources(searchResult)
           content == CompletionContent(completion)
           answer == IF content # "" THEN content ELSE "Failed to generate response."
       IN [response |-> IF Len(sources) > 0
                        THEN AppendSources(answer \o SourcesHeader, sources, 0)
                        ELSE answer,
           usage |-> IF "usage" \in DOMAIN completion THEN completion.usage
                     ELSE [input_tokens |-> 0, output_tokens |-> 0]]

----------------------------------------------------------------------------
(* generateResponse, callModel, runLangGraph *)

MissingTokenText == "Error: Hugging Face Access Token is missing. Please check your .env file."
EmptyResponseText == "I apologize, but I received an empty response from the AI model. Please try again."

\* The system message of generateResponse: the guidelines, of which the last
\* is the length constraint (the text of guidelines 1 to 5 is left out).
SystemPrompt(depthInstruction) ==
  "You are Sanyai, an advanced AI assistant designed to be helpful, engaging, and visually structured."
  \o "\n\n### GUIDELINES:\n6. **LENGTH CONSTRAINT**: " \o depthInstruction

\* The request generateResponse(prompt, depth) sends to the standard model.
StandardRequest(prompt, depth) ==
  [model |-> "HF_MODEL",
   messages |-> << [role |-> "system", content |-> SystemPrompt(DepthInstruction(depth))] >> \o prompt,
   max_tokens |-> 2048,
   stream |-> TRUE]

\* The content a streamed chunk adds to out.
ChunkContent(chunk) ==
  IF "choices" \in DOMAIN chunk
       /\ Len(chunk.choices) > 0
       /\ "delta" \in DOMAIN chunk.choices[1]
       /\ Truthy(chunk.choices[1].delta, "content")
  THEN chunk.choices[1].delta.content
  ELSE ""

\* StreamedText keeping the content of the last chunk only (out = content).
StreamedTextOfLast(chunks) ==
  IF chunks = <<>> THEN "" ELSE ChunkContent(chunks[Len(chunks)])

RECURSIVE StreamedText(_)
\* for await (const chunk of stream) out += content
StreamedText(chunks) ==
  IF chunks = <<>> THEN "" ELSE ChunkContent(Head(chunks)) \o StreamedText(Tail(chunks))

\* generateResponse returning the streamed text without the empty-output check.
generateResponseUnchecked(key, stream) ==
  IF ~key THEN MissingTokenText
  ELSE IF "error" \in DOMAIN stream
  THEN "Error calling AI Model: " \o stream.error \o ". Please check your API key and connection."
  ELSE StreamedText(stream.chunks)

\* generateResponse(prompt, depth): stream is the outcome of the streamed
\* completion, its chunks and, when the call or the iteration throws, error.
generateResponse(key, stream) ==
  IF ~key THEN MissingTokenText
  ELSE IF "error" \in DOMAIN stream
  THEN "Error calling AI Model: " \o stream.error \o ". Please check your API key and connection."
  ELSE LET out == StreamedText(stream.chunks)
       IN IF out = "" THEN EmptyResponseText ELSE out

\* runLangGraph: history.map(msg => HumanMessage | AIMessage)
ToLangChain(history) ==
  [i \in DOMAIN history |->
     [type |-> IF history[i].role = "user" THEN "human" ELSE "ai",
      content |-> history[i].content]]

\* callModel: messages.map(msg => ({role, content}))
FormatHistory(msgs) ==
  [i \in DOMAIN msgs |->
     [role |-> IF msgs[i].type = "human" THEN "user" ELSE "assistant",
      content |-> msgs[i].content]]

\* SumTokens counting the last message only.
SumTokensOfLast(history) ==
  IF history = <<>> THEN 0 ELSE countTokens(history[Len(history)].content)

RECURSIVE SumTokens(_)
\* formattedHistory.reduce((acc, msg) => acc + countTokens(msg.content), 0)
SumTokens(history) ==
  IF history = <<>> THEN 0 ELSE countTokens(Head(history).content) + SumTokens(Tail(history))

\* callModel: const depth = state.depth || 'Medium'
StateDepth(state) == IF Truthy(state, "depth") THEN state.depth ELSE "Medium"

\* callModel(state): the request its call of generateResponse sends.
callModelRequest(state) ==
  StandardRequest(FormatHistory(state.messages), StateDepth(state))

\* callModel(state): the state update, one AIMessage carrying the usage.
callModel(state, key, stream) ==
  LET formattedHistory == FormatHistory(state.messages)
      responseContent == generateResponse(key, stream)
  IN [messages |->
        <<[type |-> "ai",
           content |-> responseContent,
           additional_kwargs |->
             [usage |-> [input_tokens |-> SumTokens(formattedHistory),
                         output_tokens |-> countTokens(responseContent)]]]>>]

\* runLangGraph(history, depth): START -> agent -> END over the messages
\* channel (x.concat(y)), then the last message of the final state.
runLangGraph(history, depth, key, stream) ==
  LET inputs == ToLangChain(history)
      update == callModel([messages |-> inputs, depth |-> depth], key, stream)
      result == [messages |-> inputs \o update.messages, depth |-> depth]
      lastMessage == result.messages[Len(result.messages)]
  IN [content |-> lastMessage.content,
      usage |-> IF "additional_kwargs" \in DOMAIN lastMessage
                     /\ "usage" \in DOMAIN lastMessage.additional_kwargs
                THEN lastMessage.additional_kwargs.usage
                ELSE [input_tokens |-> 0, output_tokens |-> 0]]

\* runLangGraph(history, depth): the request the agent node sends, its state
\* being the input of the graph (the depth channel keeps the last write).
runLangGraphRequest(history, depth) ==
  callModelRequest([messages |-> ToLangChain(history), depth |-> depth])

----------------------------------------------------------------------------
(* The database: tables chats and messages of schema.sql *)

\* The n-th value of uuid_generate_v4(): well-formed and never produced before.
Uuid(n) == "uuid-" \o ToString(n)

\* A well-formed uuid that the chats table never holds.
StaleId == Uuid(0)

\* The values of type uuid; any other string is rejected by a uuid column.
IsUuid(id) == \E n \in 0..MaxReq : id = Uuid(n)

\* 'local-' + Date.now()
LocalId(now) == "local-" \o ToString(now)

\* InsertAccepted without the foreign key of messages.chat_id.
InsertAcceptedUnchecked(table, chat_id) == TRUE

\* insert into messages: chat_id uuid references chats(id) not null
InsertAccepted(table, chat_id) == \E i \in DOMAIN table : table[i] = chat_id

\* MessagesOf without the filter on chat_id.
MessagesOfAnyChat(rows, id) == rows

\* select ... from messages where chat_id = id order by created_at asc
MessagesOf(rows, id) == SelectSeq(rows, LAMBDA m : m.chat_id = id)

\* .select('role, content')
RoleContent(rows) == [i \in DOMAIN rows |-> [role |-> rows[i].role, content |-> rows[i].content]]

\* Outcomes of a Supabase query: it resolves with {data} or with {error}; a
\* rejected promise is the third outcome, which the handlers' catch clauses serve.
DbResolved == {"ok", "error"}
DbOutcomes == DbResolved \cup {"throw"}

----------------------------------------------------------------------------
(* Outcomes of the external providers *)

\* What fetch(url) and res.json() produce for the SerpApi request.
SearchOutcomes ==
  { [throws |-> TRUE],
    [throws |-> FALSE, data |-> [error |-> "Your account has run out of searches."]],
    [throws |-> FALSE,
     data |-> [organic_results |->
                 << [title |-> "Kansas City Chiefs", link |-> "https://a.example/chiefs", snippet |-> "The Chiefs won."],
                    [link |-> "https://b.example/sb58"] >>]],
    [throws |-> FALSE,
     data |-> [text_blocks |->
                 << [snippet |-> "Super Bowl LVIII was played in 2024.", link |-> "https://c.example/lviii"],
                    [title |-> "Overview"] >>,
               references |->
                 << [source |-> "Wikipedia", link |-> "https://c.example/lviii"] >>]] }

\* Most text blocks of a long search response.
MaxBlocks == 16

\* Text block i of a long search response of shape p: with a snippet and a
\* title; with an empty snippet, a title and a text, or a text only, or none of
\* them; with a link only.
LongBlock(i, p) ==
  IF p = "snippet"
  THEN [snippet |-> "Snippet " \o ToString(i) \o ".", title |-> "Title " \o ToString(i)]
  ELSE IF p = "mixed"
  THEN (IF i % 3 = 1
        THEN [snippet |-> "", title |-> "Title " \o ToString(i), text |-> "Text " \o ToString(i) \o "."]
        ELSE IF i % 3 = 2 THEN [text |-> "Text " \o ToString(i) \o "."]
        ELSE [link |-> "https://x.example/" \o ToString(i)])
  ELSE [link |-> "https://x.example/" \o ToString(i)]

\* Organic result j of a long search response: every second one has no snippet.
LongOrganic(j) ==
  IF j % 2 = 1
  THEN [title |-> "Result " \o ToString(j), link |-> "https://y.example/" \o ToString(j),
        snippet |-> "Found " \o ToString(j) \o "."]
  ELSE [title |-> "Result " \o ToString(j), link |-> "https://y.example/" \o ToString(j)]

\* Search responses with up to MaxBlocks text blocks and none or twice as
\* many organic results.
LongSearchOutcomes ==
  { [throws |-> FALSE,
     data |-> [text_blocks |-> [i \in 1..n |-> LongBlock(i, p)],
               organic_results |-> [j \in 1..m |-> LongOrganic(j)]]] :
      n \in 0..MaxBlocks, p \in {"snippet", "mixed", "link"}, m \in {0, 2 * MaxBlocks} }
  \cup { [throws |-> FALSE, data |-> [organic_results |-> [j \in 1..m |-> LongOrganic(j)]]] :
           m \in {2, 2 * MaxBlocks} }

\* Most organic results and references, and most text blocks, of the search
\* responses that exercise the extraction of sources.
MaxResults == 6
MaxLinked == 8

\* Reference j of a search response: every second one has no title.
SearchReference(j) ==
  IF j % 2 = 1
  THEN [title |-> "Reference " \o ToString(j), source |-> "Wiki",
        link |-> "https://r.example/" \o ToString(j), source_icon |-> "https://r.example/icon.png"]
  ELSE [source |-> "Wiki", link |-> "https://r.example/" \o ToString(j)]

\* Text block i of such a response: the link of organic result 1, a source_url,
\* no link, the link of block 2 again, the link of reference 1, a link of its own.
LinkedBlock(i) ==
  IF i = 1 THEN [title |-> "Block 1", link |-> "https://y.example/1"]
  ELSE IF i = 2 THEN [snippet |-> "Block 2.", source |-> "Blog", source_url |-> "https://z.example/2"]
  ELSE IF i = 3 THEN [snippet |-> "Block 3."]
  ELSE IF i = 4 THEN [link |-> "https://z.example/2"]
  ELSE IF i = 5 THEN [title |-> "Block 5", link |-> "https://r.example/1"]
  ELSE [title |-> "Block " \o ToString(i), link |-> "https://z.example/" \o ToString(i)]

\* Search responses of every shape: each of organic_results, references and
\* text_blocks absent, empty, short or long.
SourceSearchOutcomes ==
  { [throws |-> FALSE,
     data |-> (IF m < 0 THEN EmptyObject ELSE [organic_results |-> [j \in 1..m |-> LongOrganic(j)]])
              @@ (IF k < 0 THEN EmptyObject ELSE [references |-> [j \in 1..k |-> SearchReference(j)]])
              @@ (IF n < 0 THEN EmptyObject ELSE [text_blocks |-> [i \in 1..n |-> LinkedBlock(i)]])] :
      m \in {-1, 0, 1, 2, 3, MaxResults}, k \in {-1, 0, 2, MaxResults},
      n \in {-1, 0, 4, MaxLinked} }

\* What the synthesis call produces: a completion in the provider's format
\* (usage counted as prompt_tokens / completion_tokens), a completion with no
\* choice and no usage, or a rejection.
CompletionOutcomes ==
  { [throws |-> TRUE],
    [throws |-> FALSE,
     choices |-> << [message |-> [content |-> "The Chiefs won Super Bowl LVIII."]] >>,
     usage |-> [prompt_tokens |-> 9, completion_tokens |-> 5, total_tokens |-> 14]],
    [throws |-> FALSE, choices |-> << >>] }

\* What the streamed standard completion produces.
StreamOutcomes ==
  { [chunks |-> << [choices |-> << [delta |-> [content |-> "Hello"]] >>],
                   [choices |-> << [delta |-> [content |-> " there"]] >>] >>],
    [chunks |-> << [choices |-> << [delta |-> EmptyObject] >>] >>],
    [chunks |-> << >>, error |-> "fetch failed"],
    [chunks |-> << [choices |-> << [delta |-> [content |-> "Hello"]] >>] >>, error |-> "fetch failed"] }

\* The outcome recorded when the provider is not called at all.
NotCalled == [throws |-> TRUE]
NoStream == [chunks |-> << >>]

----------------------------------------------------------------------------
(* Requests *)

\* The locals of a handler invocation.  calls, flows, db, ext and before record
\* what the invocation did: the external calls and the response flows it ran,
\* in order, the data the search returned (found), the request it sent to the
\* model (sent),
\* the result of each database query, the outcome of each provider
\* call, and the chat's stored history when the request arrived.
IdleReq ==
  [kind |-> "", pc |-> "idle", body |-> EmptyObject,
   chat_id |-> "", depth |-> "", conversation |-> << >>,
   found |-> Null, searchResult |-> Null, sent |-> Null, assistantResponse |-> "", usage |-> EmptyObject,
   status |-> 0, resBody |-> EmptyObject,
   calls |-> << >>, flows |-> << >>,
   ext |-> [search |-> "none", model |-> "none"],
   db |-> [create |-> "none", insertUser |-> "none", history |-> "none",
           insertAssistant |-> "none", select |-> "none"],
   before |-> << >>]

\* Chat ids a client can send: the ids of stored chats, a uuid of no chat, and
\* the fallback ids handed out so far.  A body without the key stands for
\* every falsy chat_id (the client's null).
ChatIdInputs == Range(chats) \cup {StaleId} \cup {LocalId(t) : t \in 0..clock}

MessageInputs == {"", "Hello"}
\* The depths a client can send with request r: the four labels and a label
\* that is none of them (a body without the key stands for every falsy depth).
\* The depth of a request has no effect on the requests after it, so only the
\* first request draws from all of them.
DepthInputs(r) == IF r = 1 THEN DepthLabels \cup {"Huge"} ELSE {"Large"}

ChatKeys == {"chat_id", "message", "depth", "webSearch"}

\* The JSON bodies of POST /chat: every key is optional.
ChatBodies(r) ==
  { Pick(full, S) :
      full \in [chat_id : ChatIdInputs, message : MessageInputs,
                depth : DepthInputs(r), webSearch : BOOLEAN],
      S \in SUBSET ChatKeys }

\* One request is served at a time: request r arrives when the requests
\* before it have been answered, whose locals are then dropped.
Arrives(r) ==
  /\ served < MaxReq
  /\ r = served + 1
  /\ \A q \in Reqs : req[q].pc \in {"idle", "done"}
  /\ served' = r

Arrived(r, q) == [i \in Reqs |-> IF i = r THEN q ELSE IdleReq]

\* res.status(code).json(body)
Respond(q, code, body) == [q EXCEPT !.status = code, !.resBody = body, !.pc = "done"]

\* The catch clause of POST /chat.
InternalServerError(q) == Respond(q, 500, [error |-> "Internal Server Error"])

----------------------------------------------------------------------------
(* POST /chat *)

\* MessageMissing testing only the presence of the key.
MessageMissingKey(body) == "message" \notin DOMAIN body

\* if (!message)
MessageMissing(body) == ~Truthy(body, "message")

\* let { chat_id, ... } = req.body, "" standing for every falsy chat_id
BodyChatId(body) == IF Truthy(body, "chat_id") THEN body.chat_id ELSE ""

\* BodyDepth with the default of the graph, Medium.
BodyDepthMedium(body) == IF Truthy(body, "depth") THEN body.depth ELSE "Medium"

\* if (!depth) depth = 'Short'
BodyDepth(body) == IF Truthy(body, "depth") THEN body.depth ELSE "Short"

\* The request is read and validated.
ReceiveChat(r) ==
  /\ Arrives(r)
  /\ \E body \in ChatBodies(r) : req' = Arrived(r,
       LET q == [IdleReq EXCEPT !.kind = "POST /chat", !.body = body]
       IN IF MessageMissing(body)
          THEN Respond(q, 400, [error |-> "Message is required"])
          ELSE [q EXCEPT !.pc = "session",
                         !.chat_id = BodyChatId(body),
                         !.depth = BodyDepth(body),
                         !.before = MessagesOf(messages, BodyChatId(body))])
  /\ UNCHANGED <<supabase, HF_API_KEY, SERP_API_KEY, chats, messages, clock, sp, ui>>

\* SessionChatId answering with the fallback id although the chat was created.
SessionChatIdFallback(configured, created, newId, now) == LocalId(now)

\* The chat id of the session after step 1, for a request without chat_id:
\* created is the outcome of the insert into chats (made when configured).
SessionChatId(configured, created, newId, now) ==
  IF configured
  THEN IF created = "error" THEN LocalId(now) ELSE newId
  ELSE LocalId(now)

\* 1. Handle Chat Session.  now is the value Date.now() returns when it is called.
CreateChat(r, D) ==
  /\ req[r].pc = "session"
  /\ \E o \in D, now \in 0..MaxClock :
       LET q == req[r]
           needed == q.chat_id = ""
           called == needed /\ supabase
           inserted == called /\ o = "ok"
           newId == Uuid(Len(chats) + 1)
           timed == needed /\ ~inserted /\ o # "throw"
       IN /\ ~called => o = "ok"
          /\ IF timed THEN now \in {clock, clock + 1} /\ now <= MaxClock ELSE now = clock
          /\ clock' = now
          /\ chats' = IF inserted THEN Append(chats, newId) ELSE chats
          /\ req' = [req EXCEPT ![r] =
               IF o = "throw" THEN InternalServerError([q EXCEPT !.db.create = "throw"])
               ELSE [q EXCEPT !.chat_id = IF needed THEN SessionChatId(supabase, o, newId, now) ELSE @,
                              !.calls = IF called THEN Append(@, "chats.insert") ELSE @,
                              !.db.create = IF called THEN o ELSE "none",
                              !.pc = "insertUser"]]
          /\ UNCHANGED <<supabase, HF_API_KEY, SERP_API_KEY, messages, served, sp, ui>>

\* The result of an insert into messages: the row is stored unless the query
\* fails or the foreign key rejects the chat_id.
InsertResult(o, chat_id) == IF o = "ok" /\ InsertAccepted(chats, chat_id) THEN "ok" ELSE "error"

\* AssistantRow storing the response as a user message.
AssistantRowAsUser(chat_id, assistantResponse) ==
  [chat_id |-> chat_id, role |-> "user", content |-> assistantResponse]

\* UseWebSearch taking the presence of the key for its value.
UseWebSearchIfPresent(body) == "webSearch" \in DOMAIN body

\* The rows steps 2 and 5 insert.
UserRow(chat_id, message) == [chat_id |-> chat_id, role |-> "user", content |-> message]
AssistantRow(chat_id, assistantResponse) ==
  [chat_id |-> chat_id, role |-> "assistant", content |-> assistantResponse]

\* 2. Insert User Message
InsertUser(r, D) ==
  /\ req[r].pc = "insertUser"
  /\ \E o \in D :
       LET q == req[r]
           result == InsertResult(o, q.chat_id)
       IN /\ ~supabase => o = "ok"
          /\ messages' = IF supabase /\ result = "ok"
                         THEN Append(messages, UserRow(q.chat_id, q.body.message))
                         ELSE messages
          /\ req' = [req EXCEPT ![r] =
               IF o = "throw" THEN InternalServerError([q EXCEPT !.db.insertUser = "throw"])
               ELSE [q EXCEPT !.calls = IF supabase THEN Append(@, "messages.insert") ELSE @,
                              !.db.insertUser = IF supabase THEN result ELSE "none",
                              !.pc = "history"]]
          /\ UNCHANGED <<supabase, HF_API_KEY, SERP_API_KEY, chats, clock, served, sp, ui>>

\* The result of the history query: it fails when the query fails or when
\* chat_id is not a uuid.
HistoryResult(o, chat_id) == IF o = "ok" /\ IsUuid(chat_id) THEN "ok" ELSE "error"

\* Conversation keeping the empty data of a failed history query.
ConversationEmptyOnError(configured, historyResult, history, message) ==
  IF configured
  THEN IF historyResult = "ok" THEN history ELSE << >>
  ELSE << [role |-> "user", content |-> message] >>

\* The conversation after step 3.
Conversation(configured, historyResult, history, message) ==
  IF configured /\ historyResult = "ok"
  THEN history
  ELSE << [role |-> "user", content |-> message] >>

\* if (webSearch)
UseWebSearch(body) == TruthyFlag(body, "webSearch")

\* LoadHistory going on to step 5 without waiting for the standard flow.
LoadHistoryUnawaited(r, D) ==
  /\ req[r].pc = "history"
  /\ \E o \in D :
       LET q == req[r]
           result == HistoryResult(o, q.chat_id)
       IN /\ ~supabase => o = "ok"
          /\ req' = [req EXCEPT ![r] =
               [q EXCEPT !.conversation =
                           Conversation(supabase, result,
                                        RoleContent(MessagesOf(messages, q.chat_id)),
                                        q.body.message),
                         !.calls = IF supabase THEN Append(@, "messages.select") ELSE @,
                         !.db.history = IF supabase THEN result ELSE "none",
                         !.pc = IF UseWebSearch(q.body) THEN "search" ELSE "insertAssistant"]]
          /\ UNCHANGED <<supabase, HF_API_KEY, SERP_API_KEY, chats, messages, clock, served, sp, ui>>

\* 3. Load Conversation Context, then the branch of step 4 is entered.
LoadHistory(r, D) ==
  /\ req[r].pc = "history"
  /\ \E o \in D :
       LET q == req[r]
           result == HistoryResult(o, q.chat_id)
       IN /\ ~supabase => o = "ok"
          /\ req' = [req EXCEPT ![r] =
               IF o = "throw" THEN InternalServerError([q EXCEPT !.db.history = "throw"])
               ELSE [q EXCEPT !.conversation =
                                Conversation(supabase, result,
                                             RoleContent(MessagesOf(messages, q.chat_id)),
                                             q.body.message),
                              !.calls = IF supabase THEN Append(@, "messages.select") ELSE @,
                              !.db.history = IF supabase THEN result ELSE "none",
                              !.pc = IF UseWebSearch(q.body) THEN "search" ELSE "model"]]
          /\ UNCHANGED <<supabase, HF_API_KEY, SERP_API_KEY, chats, messages, clock, served, sp, ui>>

\* 4a. handleWebSearchFlow: performWebSearch
WebSearch(r, F) ==
  /\ req[r].pc = "search"
  /\ \E fetched \in F :
       LET q == req[r]
       IN /\ ~SERP_API_KEY => fetched = NotCalled
          /\ req' = [req EXCEPT ![r] =
               [q EXCEPT !.found = IF SERP_API_KEY /\ ~fetched.throws THEN fetched.data ELSE Null,
                         !.searchResult = performWebSearch(SERP_API_KEY, fetched),
                         !.calls = IF SERP_API_KEY THEN Append(@, "serpapi.search") ELSE @,
                         !.flows = Append(@, "handleWebSearchFlow"),
                         !.ext.search = IF ~SERP_API_KEY THEN "none"
                                        ELSE IF fetched.throws THEN "throw"
                                        ELSE IF Truthy(fetched.data, "error") THEN "error"
                                        ELSE "ok",
                         !.pc = "synthesis"]]
          /\ UNCHANGED <<supabase, HF_API_KEY, SERP_API_KEY, chats, messages, clock, served, sp, ui>>

\* 4a. handleWebSearchFlow: the synthesis model call and the sources section
Synthesize(r) ==
  /\ req[r].pc = "synthesis"
  /\ \E completion \in CompletionOutcomes :
       LET q == req[r]
           result == SynthesisResult(q.searchResult, completion)
       IN /\ req' = [req EXCEPT ![r] =
               [q EXCEPT !.assistantResponse = result.response,
                         !.usage = result.usage,
                         !.sent = SynthesisRequest(q.body.message, SearchContext(q.searchResult), q.depth),
                         !.calls = Append(@, "kimi.completion"),
                         !.ext.model = IF completion.throws THEN "throw"
                                       ELSE IF CompletionContent(completion) = "" THEN "empty"
                                       ELSE "ok",
                         !.pc = "insertAssistant"]]
          /\ UNCHANGED <<supabase, HF_API_KEY, SERP_API_KEY, chats, messages, clock, served, sp, ui>>

\* 4b. Standard LangGraph Flow
StandardModel(r) ==
  /\ req[r].pc = "model"
  /\ \E stream \in StreamOutcomes \cup {NoStream} :
       LET q == req[r]
           result == runLangGraph(q.conversation, q.depth, HF_API_KEY, stream)
       IN /\ HF_API_KEY <=> stream # NoStream
          /\ req' = [req EXCEPT ![r] =
               [q EXCEPT !.assistantResponse = result.content,
                         !.usage = result.usage,
                         !.sent = IF HF_API_KEY THEN runLangGraphRequest(q.conversation, q.depth) ELSE Null,
                         !.calls = IF HF_API_KEY THEN Append(@, "hf.completion") ELSE @,
                         !.flows = Append(@, "runLangGraph"),
                         !.ext.model = IF ~HF_API_KEY THEN "none"
                                       ELSE IF "error" \in DOMAIN stream THEN "throw"
                                       ELSE IF StreamedText(stream.chunks) = "" THEN "empty"
                                       ELSE "ok",
                         !.pc = "insertAssistant"]]
          /\ UNCHANGED <<supabase, HF_API_KEY, SERP_API_KEY, chats, messages, clock, served, sp, ui>>

\* 6. Return Result
ChatResult(chat_id, assistantResponse, usage) ==
  [chat_id |-> chat_id, response |-> assistantResponse, usage |-> usage]

\* InsertAssistant storing the content of step 2, the user's message.
InsertAssistantOfMessage(r, D) ==
  /\ req[r].pc = "insertAssistant"
  /\ \E o \in D :
       LET q == req[r]
           result == InsertResult(o, q.chat_id)
       IN /\ ~supabase => o = "ok"
          /\ messages' = IF supabase /\ result = "ok"
                         THEN Append(messages, AssistantRow(q.chat_id, q.body.message))
                         ELSE messages
          /\ req' = [req EXCEPT ![r] =
               IF o = "throw" THEN InternalServerError([q EXCEPT !.db.insertAssistant = "throw"])
               ELSE Respond([q EXCEPT !.calls = IF supabase THEN Append(@, "messages.insert") ELSE @,
                                      !.db.insertAssistant = IF supabase THEN result ELSE "none"],
                            200, ChatResult(q.chat_id, q.assistantResponse, q.usage))]
          /\ UNCHANGED <<supabase, HF_API_KEY, SERP_API_KEY, chats, clock, served, sp, ui>>

\* 5. Insert Assistant Response and 6. Return Result
InsertAssistant(r, D) ==
  /\ req[r].pc = "insertAssistant"
  /\ \E o \in D :
       LET q == req[r]
           result == InsertResult(o, q.chat_id)
       IN /\ ~supabase => o = "ok"
          /\ messages' = IF supabase /\ result = "ok"
                         THEN Append(messages, AssistantRow(q.chat_id, q.assistantResponse))
                         ELSE messages
          /\ req' = [req EXCEPT ![r] =
               IF o = "throw" THEN InternalServerError([q EXCEPT !.db.insertAssistant = "throw"])
               ELSE Respond([q EXCEPT !.calls = IF supabase THEN Append(@, "messages.insert") ELSE @,
                                      !.db.insertAssistant = IF supabase THEN result ELSE "none"],
                            200, ChatResult(q.chat_id, q.assistantResponse, q.usage))]
          /\ UNCHANGED <<supabase, HF_API_KEY, SERP_API_KEY, chats, clock, served, sp, ui>>

----------------------------------------------------------------------------
(* GET /chat/:id and GET /chats *)

\* Ids a client can ask for.
IdInputs == Range(chats) \cup {StaleId} \cup {LocalId(t) : t \in 0..clock}

RECURSIVE Reverse(_)
Reverse(seq) == IF seq = <<>> THEN <<>> ELSE Append(Reverse(Tail(seq)), Head(seq))

\* ChatMessages answering with the rows whatever the result of the query.
ChatMessagesRegardless(result, rows) == [messages |-> rows]

\* The body GET /chat/:id answers with: result is "none" without a client,
\* "throw" when the query rejects, else the result of the query.
ChatMessages(result, rows) ==
  IF result = "ok" THEN [messages |-> rows] ELSE [messages |-> << >>]

\* GET /chat/:id
GetChat(r, D) ==
  /\ Arrives(r)
  /\ \E id \in IdInputs, o \in D :
       LET q == [IdleReq EXCEPT !.kind = "GET /chat/:id", !.body = [id |-> id]]
           result == IF ~supabase THEN "none"
                     ELSE IF o = "throw" THEN "throw"
                     ELSE HistoryResult(o, id)
       IN /\ ~supabase => o = "ok"
          /\ req' = Arrived(r,
               Respond([q EXCEPT !.calls = IF supabase THEN <<"messages.select">> ELSE @,
                                 !.db.select = result],
                       200, ChatMessages(result, MessagesOf(messages, id))))
          /\ UNCHANGED <<supabase, HF_API_KEY, SERP_API_KEY, chats, messages, clock, sp, ui>>

\* RecentChats without the descending order.
RecentChatsOldestFirst(rows) == Slice(rows, 20)

\* select * from chats order by created_at desc limit 20
RecentChats(rows) == Slice(Reverse(rows), 20)

\* The body GET /chats answers with.
ChatList(result, rows) ==
  IF result = "ok" THEN [chats |-> rows] ELSE [chats |-> << >>]

\* GET /chats
GetChats(r, D) ==
  /\ Arrives(r)
  /\ \E o \in D :
       LET q == [IdleReq EXCEPT !.kind = "GET /chats"]
           result == IF ~supabase THEN "none" ELSE o
       IN /\ ~supabase => o = "ok"
          /\ req' = Arrived(r,
               Respond([q EXCEPT !.calls = IF supabase THEN <<"chats.select">> ELSE @,
                                 !.db.select = result],
                       200, ChatList(result, RecentChats(chats))))
          /\ UNCHANGED <<supabase, HF_API_KEY, SERP_API_KEY, chats, messages, clock, sp, ui>>

----------------------------------------------------------------------------
(* POST /smart-prompt *)

\* Longest model output, in lexical tokens.
MaxRawLen == 4

\* The content the optimization model returns is a sequence of lexical tokens:
\* a code fence (three backquotes, written <fence>) with or without the json
\* tag, braces, the member
\* "optimized_prompt":"Sum two numbers.", the literal null, prose, white space.
FenceJson == "<fence>json"
Fence == "<fence>"
OptimizedMember == "\"optimized_prompt\":\"Sum two numbers.\""
RawTokens == {FenceJson, Fence, "{", "}", OptimizedMember, "null", "Sure!", " "}

RawContents == UNION {[1..n -> RawTokens] : n \in 0..MaxRawLen}

IsInk(tok) == tok # " "

\* JSON.parse(text): white space is skipped; the texts that parse are null,
\* {} and {<member>}.  [ok |-> FALSE] stands for a SyntaxError.
JsonParse(text) ==
  LET t == SelectSeq(text, IsInk)
  IN IF t = <<"null">> THEN [ok |-> TRUE, value |-> Null]
     ELSE IF t = <<"{", "}">> THEN [ok |-> TRUE, value |-> EmptyObject]
     ELSE IF t = <<"{", OptimizedMember, "}">>
     THEN [ok |-> TRUE, value |-> [optimized_prompt |-> "Sum two numbers."]]
     ELSE [ok |-> FALSE]

IsNotFence(tok) == tok \notin {FenceJson, Fence}

RECURSIVE Trim(_)
\* text.trim()
Trim(text) ==
  IF text = <<>> THEN text
  ELSE IF Head(text) = " " THEN Trim(Tail(text))
  ELSE IF text[Len(text)] = " " THEN Trim(SubSeq(text, 1, Len(text) - 1))
  ELSE text

\* rawContent.replace(/<fence>json/g, '').replace(/<fence>/g, '').trim()
StripFences(text) == Trim(SelectSeq(text, IsNotFence))

\* rawContent.match(/\{[\s\S]*\}/): from the first { to the last }, << >> when
\* there is no match.
FirstObject(text) ==
  LET opens == {i \in DOMAIN text : text[i] = "{"}
      closes == {i \in DOMAIN text : text[i] = "}"}
  IN IF opens = {} \/ closes = {} THEN << >>
     ELSE LET first == CHOOSE i \in opens : \A j \in opens : i <= j
              last == CHOOSE i \in closes : \A j \in closes : j <= i
          IN IF first < last THEN SubSeq(text, first, last) ELSE << >>

ParseErrorIssue == "Could not analyze prompt structure (JSON Parse Error)"

\* Robust JSON Parsing: the three attempts and the fallback object.
RobustParse(rawContent, prompt) ==
  IF JsonParse(rawContent).ok THEN JsonParse(rawContent).value
  ELSE IF JsonParse(StripFences(rawContent)).ok THEN JsonParse(StripFences(rawContent)).value
  ELSE IF FirstObject(rawContent) # << >> /\ JsonParse(FirstObject(rawContent)).ok
  THEN JsonParse(FirstObject(rawContent)).value
  ELSE [issues |-> <<ParseErrorIssue>>, optimized_prompt |-> prompt]

\* completion.choices[0]?.message?.content || "{}"
RawContent(completion) ==
  IF Len(completion.choices) > 0
       /\ "message" \in DOMAIN completion.choices[1]
       /\ "content" \in DOMAIN completion.choices[1].message
       /\ completion.choices[1].message.content # << >>
  THEN completion.choices[1].message.content
  ELSE <<"{", "}">>

\* The answer of POST /smart-prompt: reading a property of null throws, which
\* the outer catch answers, like a rejected model call.
SmartPromptAnswer(body, completion) ==
  IF ~Truthy(body, "prompt")
  THEN [status |-> 400, resBody |-> [error |-> "Prompt is required"]]
  ELSE IF completion.throws
  THEN [status |-> 500, resBody |-> [error |-> "Failed to analyze prompt"]]
  ELSE LET prompt == body.prompt
           result == RobustParse(RawContent(completion), prompt)
           optimized == IF Truthy(result, "optimized_prompt") THEN result.optimized_prompt ELSE prompt
       IN IF result = Null
          THEN [status |-> 500, resBody |-> [error |-> "Failed to analyze prompt"]]
          ELSE [status |-> 200,
                resBody |-> [issues |-> IF "issues" \in DOMAIN result THEN result.issues ELSE << >>,
                             optimizedPrompt |-> optimized,
                             originalTokens |-> countTokens(prompt),
                             optimizedTokens |-> countTokens(optimized)]]

PromptBodies == {EmptyObject, [prompt |-> ""], [prompt |-> "Can you please sum two numbers?"]}

\* What the optimization model call produces.
SmartCompletions ==
  {[throws |-> TRUE], [throws |-> FALSE, choices |-> << >>]}
  \cup {[throws |-> FALSE, choices |-> << [message |-> [content |-> raw]] >>] : raw \in RawContents}

\* POST /smart-prompt
SmartPrompt ==
  /\ sp = Null
  /\ \E body \in PromptBodies, completion \in SmartCompletions :
       /\ Truthy(body, "prompt") \/ completion = [throws |-> TRUE]
       /\ sp' = [body |-> body, completion |-> completion]
                  @@ SmartPromptAnswer(body, completion)
       /\ UNCHANGED <<supabase, HF_API_KEY, SERP_API_KEY, chats, messages, clock, served, req, ui>>

----------------------------------------------------------------------------
(* The client: App.jsx, Smart Prompt *)

\* Most chat messages the user sends in a session.
MaxSends == 2

Sends == 1..MaxSends

\* A call of sendMessage that has not been made: pc is idle, inflight between
\* the POST /chat and its outcome, then done; chat_id and message are the
\* currentChatId and the input its closure holds; switched records that another
\* chat was displayed while the request was in flight.
IdlePost == [pc |-> "idle", chat_id |-> "", message |-> "", switched |-> FALSE]

\* The state of the App component when it is mounted.  request is the POST
\* /smart-prompt in flight, last the last event handled.  "" stands for the
\* null of currentChatId and of a missing localStorage item (no id is empty);
\* mounted tells that the mount effect has run, fetching that a GET /chats is
\* in flight, loading holds the ids of the GET /chat/:id in flight.
IdleUi ==
  [input |-> "", smartPromptData |-> Null, isSmartPromptLoading |-> FALSE,
   request |-> Null, last |-> "mount",
   messages |-> << >>, isLoading |-> FALSE, currentChatId |-> "", chats |-> << >>,
   localStorage |-> "", mounted |-> FALSE, fetching |-> FALSE, loading |-> {},
   posts |-> [s \in Sends |-> IdlePost]]

\* What the user types in the input box.
InputTexts == {"", " ", "Can you please sum two numbers?"}

\* What the optimization model produces behind the answers the client
\* receives: contents of up to three lexical tokens.
AnsweringCompletions ==
  {[throws |-> TRUE], [throws |-> FALSE, choices |-> << >>]}
  \cup {[throws |-> FALSE, choices |-> << [message |-> [content |-> raw]] >>] :
          raw \in UNION {[1..n -> RawTokens] : n \in 0..3}}

\* !text.trim()
IsBlank(text) == \A i \in 1..Len(text) : SubSeq(text, i, i) = " "

\* onChange={(e) => setInput(e.target.value)}
ChangeInput ==
  /\ ~ui.isLoading
  /\ \E text \in InputTexts \ {ui.input} : ui' = [ui EXCEPT !.input = text, !.last = "change"]
  /\ UNCHANGED <<supabase, HF_API_KEY, SERP_API_KEY, chats, messages, clock, served, req, sp>>

\* handleSmartPrompt up to the request: the button is disabled while the input
\* is blank or a request is in flight.
handleSmartPrompt ==
  /\ ~IsBlank(ui.input) /\ ~ui.isSmartPromptLoading
  /\ ui' = [ui EXCEPT !.isSmartPromptLoading = TRUE,
                      !.request = [prompt |-> ui.input],
                      !.last = "smartPrompt"]
  /\ UNCHANGED <<supabase, HF_API_KEY, SERP_API_KEY, chats, messages, clock, served, req, sp>>

\* handleSmartPrompt from the answer on: axios rejects for a status that is not
\* 2xx and for a network error, which the catch clause only logs.
SmartPromptAnswered ==
  /\ ui.request # Null
  /\ \E completion \in AnsweringCompletions, delivered \in BOOLEAN :
       LET res == SmartPromptAnswer(ui.request, completion)
       IN ui' = [ui EXCEPT !.smartPromptData = IF delivered /\ res.status = 200 THEN res.resBody ELSE @,
                           !.isSmartPromptLoading = FALSE,
                           !.request = Null,
                           !.last = "answer"]
  /\ UNCHANGED <<supabase, HF_API_KEY, SERP_API_KEY, chats, messages, clock, served, req, sp>>

\* acceptSmartPrompt, the handler of the Accept Optimization button of the panel.
acceptSmartPrompt ==
  /\ ui.smartPromptData # Null
  /\ ui' = [ui EXCEPT !.input = ui.smartPromptData.optimizedPrompt,
                      !.smartPromptData = Null,
                      !.last = "accept"]
  /\ UNCHANGED <<supabase, HF_API_KEY, SERP_API_KEY, chats, messages, clock, served, req, sp>>

\* The Edit button of the panel.
EditSmartPrompt ==
  /\ ui.smartPromptData # Null
  /\ ui' = [ui EXCEPT !.input = ui.smartPromptData.optimizedPrompt,
                      !.smartPromptData = Null,
                      !.last = "edit"]
  /\ UNCHANGED <<supabase, HF_API_KEY, SERP_API_KEY, chats, messages, clock, served, req, sp>>

\* The Ignore and close buttons of the panel.
IgnoreSmartPrompt ==
  /\ ui.smartPromptData # Null
  /\ ui' = [ui EXCEPT !.smartPromptData = Null, !.last = "ignore"]
  /\ UNCHANGED <<supabase, HF_API_KEY, SERP_API_KEY, chats, messages, clock, served, req, sp>>

----------------------------------------------------------------------------
(* The client: App.jsx, chats *)

API_URL == "http://localhost:3000"

\* The chat the server holds when the session starts.
StoredChatId == Uuid(1)

\* The rows GET /chat/:id answers with for a stored chat.
StoredMessages(id) ==
  << [id |-> "row-1", chat_id |-> id, role |-> "user", content |-> "Earlier question"],
     [id |-> "row-2", chat_id |-> id, role |-> "assistant", content |-> "Earlier answer"] >>

\* What axios.get(/chats) produces: the list of the chats, an empty list, a
\* body without the key, or a rejection.
FetchOutcomes ==
  { [ok |-> TRUE, data |-> [chats |-> << StoredChatId >>]],
    [ok |-> TRUE, data |-> [chats |-> << >>]],
    [ok |-> TRUE, data |-> EmptyObject],
    [ok |-> FALSE] }

\* What axios.get(/chat/id) produces.
LoadOutcomes(id) ==
  { [ok |-> TRUE, data |-> [messages |-> StoredMessages(id)]],
    [ok |-> TRUE, data |-> [messages |-> << >>]],
    [ok |-> TRUE, data |-> EmptyObject],
    [ok |-> FALSE] }

\* What axios.post(/chat) produces for send s: the answer of the server, with
\* the usage of either branch; a response with an error status, with or
\* without an error in its body; no response; an error before the request.
\* The outcome of a send has no effect on the sends after it, so only the first
\* one draws from all of them.
ChatOutcomes(s, chat_id) ==
  LET id == IF chat_id = "" THEN Uuid(1 + s) ELSE chat_id
  IN { [kind |-> "ok",
        data |-> [chat_id |-> id, response |-> "The sum is 4.",
                  usage |-> [input_tokens |-> 9, output_tokens |-> 5]]],
       [kind |-> "request"] }
     \cup
     (IF s > 1 THEN {}
      ELSE { [kind |-> "ok",
              data |-> [chat_id |-> id, response |-> "Error: Failed to synthesize web results.",
                        usage |-> EmptyObject]],
             [kind |-> "response", status |-> 500, data |-> [error |-> "Internal Server Error"],
              statusText |-> "Internal Server Error"],
             [kind |-> "response", status |-> 502, data |-> EmptyObject, statusText |-> "Bad Gateway"],
             [kind |-> "setup", message |-> "Invalid URL"] })

\* The sends in flight are marked when the list of a chat other than theirs
\* replaces the displayed one.
Switched(posts, id) ==
  [s \in Sends |->
     IF posts[s].pc = "inflight" /\ (id = "" \/ posts[s].chat_id # id)
     THEN [posts[s] EXCEPT !.switched = TRUE]
     ELSE posts[s]]

\* loadMessages(id) up to the request.
LoadStarted(u, id) == [u EXCEPT !.isLoading = TRUE, !.loading = @ \cup {id}]

\* Load initial chats: the effect run once when the component is mounted.
Mount ==
  /\ ~ui.mounted
  /\ LET storedChatId == ui.localStorage
         u == [ui EXCEPT !.mounted = TRUE, !.fetching = TRUE, !.last = "mounted"]
     IN ui' = IF storedChatId # ""
              THEN LoadStarted([u EXCEPT !.currentChatId = storedChatId], storedChatId)
              ELSE u
  /\ UNCHANGED <<supabase, HF_API_KEY, SERP_API_KEY, chats, messages, clock, served, req, sp>>

\* fetchChats from the answer on.
FetchChatsAnswered ==
  /\ ui.fetching
  /\ \E res \in FetchOutcomes :
       ui' = [ui EXCEPT !.chats = IF res.ok /\ "chats" \in DOMAIN res.data THEN res.data.chats ELSE @,
                        !.fetching = FALSE,
                        !.last = "chats"]
  /\ UNCHANGED <<supabase, HF_API_KEY, SERP_API_KEY, chats, messages, clock, served, req, sp>>

\* A click on a chat of the history: loadMessages(chat.id) up to the request.
loadMessages ==
  /\ ui.mounted
  /\ \E id \in Range(ui.chats) \ ui.loading :
       ui' = [LoadStarted(ui, id) EXCEPT !.last = "select"]
  /\ UNCHANGED <<supabase, HF_API_KEY, SERP_API_KEY, chats, messages, clock, served, req, sp>>

\* loadMessages(id) from the answer on.
LoadAnswered ==
  \E id \in ui.loading : \E res \in LoadOutcomes(id) :
    /\ ui' = [ui EXCEPT
         !.messages = IF ~res.ok THEN @
                      ELSE IF "messages" \in DOMAIN res.data THEN res.data.messages ELSE << >>,
         !.currentChatId = IF res.ok THEN id ELSE @,
         !.localStorage = IF res.ok THEN id ELSE @,
         !.posts = IF res.ok THEN Switched(@, id) ELSE @,
         !.isLoading = FALSE,
         !.loading = @ \ {id},
         !.last = "loaded"]
    /\ UNCHANGED <<supabase, HF_API_KEY, SERP_API_KEY, chats, messages, clock, served, req, sp>>

\* startNewChat leaving the stored chat id in place.
startNewChatKeepingStored ==
  /\ ui.mounted
  /\ ui.currentChatId # "" \/ ui.messages # << >> \/ ui.localStorage # ""
  /\ ui' = [ui EXCEPT !.currentChatId = "",
                      !.messages = << >>,
                      !.posts = Switched(@, ""),
                      !.last = "newChat"]
  /\ UNCHANGED <<supabase, HF_API_KEY, SERP_API_KEY, chats, messages, clock, served, req, sp>>

\* startNewChat, the handler of the New Chat button (a click that changes
\* nothing is left out).
startNewChat ==
  /\ ui.mounted
  /\ ui.currentChatId # "" \/ ui.messages # << >> \/ ui.localStorage # ""
  /\ ui' = [ui EXCEPT !.currentChatId = "",
                      !.messages = << >>,
                      !.localStorage = "",
                      !.posts = Switched(@, ""),
                      !.last = "newChat"]
  /\ UNCHANGED <<supabase, HF_API_KEY, SERP_API_KEY, chats, messages, clock, served, req, sp>>

\* Math.ceil(input.length / 4)
EstimatedTokens(input) == (Len(input) + 3) \div 4

\* The user message of send s; its id stands for Date.now().toString().
UserMessage(s, input) ==
  [role |-> "user", content |-> input, id |-> ToString(s), tokens |-> EstimatedTokens(input)]

\* Update user message with exact input tokens: usage?.input_tokens || msg.tokens
WithExactTokens(msgs, s, usage) ==
  [i \in DOMAIN msgs |->
     IF msgs[i].id = ToString(s)
     THEN ("tokens" :> (IF "input_tokens" \in DOMAIN usage /\ usage.input_tokens # 0
                        THEN usage.input_tokens ELSE msgs[i].tokens))
          @@ ("exactTokens" :> TRUE) @@ msgs[i]
     ELSE msgs[i]]

AssistantMessage(s, data) ==
  [role |-> "assistant", content |-> data.response, id |-> ToString(s) \o "a"]
  @@ Opt("tokens", data.usage, "output_tokens")

\* The text of the catch clause of sendMessage for the error axios rejected with.
ErrorText(error) ==
  (IF error.kind = "response"
   THEN "Error " \o ToString(error.status) \o ": "
        \o (IF Truthy(error.data, "error") THEN error.data.error ELSE error.statusText)
   ELSE IF error.kind = "request"
   THEN "Network Error: No response from " \o API_URL \o ". Check if Backend is running."
   ELSE "Request Error: " \o error.message)
  \o " (Target: " \o API_URL \o ")"

ErrorMessage(s, errorText) ==
  [role |-> "assistant", content |-> errorText, id |-> ToString(s) \o "e", isError |-> TRUE]

\* sendMessage up to the request: the form is submitted.
sendMessage ==
  /\ ui.mounted
  /\ ~IsBlank(ui.input) /\ ~ui.isLoading
  /\ \E s \in Sends :
       /\ ui.posts[s].pc = "idle" /\ \A t \in 1..(s - 1) : ui.posts[t].pc # "idle"
       /\ ui' = [ui EXCEPT !.messages = Append(@, UserMessage(s, ui.input)),
                           !.input = "",
                           !.isLoading = TRUE,
                           !.posts[s] = [pc |-> "inflight", chat_id |-> ui.currentChatId,
                                         message |-> ui.input, switched |-> FALSE],
                           !.last = "send"]
  /\ UNCHANGED <<supabase, HF_API_KEY, SERP_API_KEY, chats, messages, clock, served, req, sp>>

\* sendMessage from the outcome of the request on: the rest of the try block
\* or the catch clause, then the finally clause.
ChatAnswered ==
  \E s \in Sends :
    /\ ui.posts[s].pc = "inflight"
    /\ \E res \in ChatOutcomes(s, ui.posts[s].chat_id) :
         LET created == res.kind = "ok" /\ ui.posts[s].chat_id = ""
         IN ui' = [ui EXCEPT
              !.currentChatId = IF created THEN res.data.chat_id ELSE @,
              !.localStorage = IF created THEN res.data.chat_id ELSE @,
              !.fetching = IF created THEN TRUE ELSE @,
              !.messages = IF res.kind = "ok"
                           THEN Append(WithExactTokens(@, s, res.data.usage),
                                       AssistantMessage(s, res.data))
                           ELSE Append(@, ErrorMessage(s, ErrorText(res))),
              !.isLoading = FALSE,
              !.posts[s].pc = "done",
              !.last = "reply"]
    /\ UNCHANGED <<supabase, HF_API_KEY, SERP_API_KEY, chats, messages, clock, served, req, sp>>

----------------------------------------------------------------------------
(* The server *)

Init ==
  /\ supabase \in BOOLEAN
  /\ HF_API_KEY \in BOOLEAN
  /\ SERP_API_KEY \in BOOLEAN
  /\ chats = << >>
  /\ messages = << >>
  /\ clock = 0
  /\ served = 0
  /\ req = [r \in Reqs |-> IdleReq]
  /\ sp = Null
  /\ ui = IdleUi

\* The handlers, the database queries resolving with one of the outcomes D
\* and the search request with one of the outcomes F.
Serve(D, F) ==
  \E r \in Reqs :
    \/ ReceiveChat(r)
    \/ CreateChat(r, D)
    \/ InsertUser(r, D)
    \/ LoadHistory(r, D)
    \/ WebSearch(r, F)
    \/ Synthesize(r)
    \/ StandardModel(r)
    \/ InsertAssistant(r, D)
    \/ GetChat(r, D)
    \/ GetChats(r, D)

\* The server with a Supabase client that resolves every query.
Next == Serve(DbResolved, SearchOutcomes)

Spec == Init /\ [][Next]_vars

\* The server with a Supabase client whose queries may also reject.
NextRejecting == Serve(DbOutcomes, SearchOutcomes)

SpecRejecting == Init /\ [][NextRejecting]_vars

\* The server without a database and with a SerpApi key, the search returning
\* long responses.
InitSearch ==
  /\ supabase = FALSE
  /\ HF_API_KEY \in BOOLEAN
  /\ SERP_API_KEY = TRUE
  /\ chats = << >>
  /\ messages = << >>
  /\ clock = 0
  /\ served = 0
  /\ req = [r \in Reqs |-> IdleReq]
  /\ sp = Null
  /\ ui = IdleUi

NextSearch == Serve(DbResolved, LongSearchOutcomes)

SpecSearch == InitSearch /\ [][NextSearch]_vars

\* Most chats the database holds when the server starts.
MaxStored == 21

\* The server started on a database that holds chats of earlier runs.
InitStored ==
  /\ supabase \in BOOLEAN
  /\ HF_API_KEY = FALSE
  /\ SERP_API_KEY = FALSE
  /\ chats \in {[i \in 1..n |-> Uuid(i)] : n \in 0..MaxStored}
  /\ messages = << >>
  /\ clock = 0
  /\ served = 0
  /\ req = [r \in Reqs |-> IdleReq]
  /\ sp = Null
  /\ ui = IdleUi

\* The server answering GET requests only.
NextStored == \E r \in Reqs : GetChat(r, DbOutcomes) \/ GetChats(r, DbOutcomes)

SpecStored == InitStored /\ [][NextStored]_vars

\* The server answering POST /smart-prompt.
NextSmart == SmartPrompt

SpecSmart == Init /\ [][NextSmart]_vars

\* The client using Smart Prompt.
NextClient ==
  \/ ChangeInput
  \/ handleSmartPrompt
  \/ SmartPromptAnswered
  \/ acceptSmartPrompt
  \/ EditSmartPrompt
  \/ IgnoreSmartPrompt

SpecClient == Init /\ [][NextClient]_vars

\* The browser opens the application: localStorage holds no chat id or the
\* one an earlier session stored.
InitChat ==
  /\ supabase = TRUE
  /\ HF_API_KEY = TRUE
  /\ SERP_API_KEY = TRUE
  /\ chats = << >>
  /\ messages = << >>
  /\ clock = 0
  /\ served = 0
  /\ req = [r \in Reqs |-> IdleReq]
  /\ sp = Null
  /\ \E stored \in {"", StoredChatId} : ui = [IdleUi EXCEPT !.localStorage = stored]

\* The client and its chats.
NextChat ==
  \/ Mount
  \/ FetchChatsAnswered
  \/ ChangeInput
  \/ loadMessages
  \/ LoadAnswered
  \/ startNewChat
  \/ sendMessage
  \/ ChatAnswered

SpecChat == InitChat /\ [][NextChat]_vars

\* The same client, when every request of axios settles and its continuation
\* is run.
SpecChatFair ==
  /\ SpecChat
  /\ WF_vars(Mount)
  /\ WF_vars(FetchChatsAnswered)
  /\ WF_vars(LoadAnswered)
  /\ WF_vars(ChatAnswered)

----------------------------------------------------------------------------
(* Vocabulary of the properties *)

IsChat(q) == q.kind = "POST /chat"
Answered(q) == q.pc = "done"

\* The body has no message, or an empty one.
NoMessage(body) == "message" \notin DOMAIN body \/ body.message = ""

\* The body carries no chat_id.
NoChatId(body) == "chat_id" \notin DOMAIN body \/ body.chat_id = ""

\* An accepted POST /chat.
Accepted(q) == IsChat(q) /\ ~NoMessage(q.body)

\* webSearch is true in the body.
WantsSearch(body) == "webSearch" \in DOMAIN body /\ body.webSearch

StartsWith(text, prefix) ==
  Len(text) >= Len(prefix) /\ SubSeq(text, 1, Len(prefix)) = prefix

Contains(text, part) ==
  \E i \in 1..(Len(text) - Len(part) + 1) : SubSeq(text, i, i + Len(part) - 1) = part

StoredIn(table, id) == \E i \in DOMAIN table : table[i] = id

----------------------------------------------------------------------------
(* C1 *)

C1_Returned ==
  \A r \in Reqs :
    LET q == req[r]
    IN Accepted(q) /\ NoChatId(q.body) /\ Answered(q)
       => /\ q.status = 200
          /\ q.resBody.chat_id # ""
          /\ q.db.create = "ok" => StoredIn(chats, q.resBody.chat_id)
          /\ q.db.create # "ok" => StartsWith(q.resBody.chat_id, "local-")

C1_Created ==
  /\ chats' # chats =>
       \E r \in Reqs :
         /\ IsChat(req[r]) /\ NoChatId(req[r].body) /\ req[r].pc = "session"
         /\ req'[r].db.create = "ok"
         /\ ~StoredIn(chats, req'[r].chat_id)
         /\ chats' = Append(chats, req'[r].chat_id)
  /\ \A r \in Reqs :
       req[r].pc = "session" /\ req'[r].db.create = "ok" => Len(chats') = Len(chats) + 1

\* C1: an accepted POST /chat without chat_id answers 200 with an allocated chat
\* id: when the insert into chats succeeds the request has added exactly one
\* row, whose id is new and is the chat_id returned, and otherwise the id is a
\* local- fallback; no other step of any handler ever changes the chats table.
C1_NewChatAllocated == [](C1_Returned) /\ [][C1_Created]_vars

\* A request without chat_id whose insert succeeded has been answered.
C1_Witness ==
  \E r \in Reqs :
    /\ Accepted(req[r]) /\ NoChatId(req[r].body) /\ Answered(req[r])
    /\ req[r].db.create = "ok" /\ req[r].resBody.chat_id = chats[Len(chats)]

----------------------------------------------------------------------------
(* C2 *)

\* The stored history of chat c, in creation order.
StoredHistory(c) == SelectSeq(messages, LAMBDA m : m.chat_id = c)

\* A POST /chat on a stored chat that has been answered with a response.
OnStoredChat(q) ==
  /\ Accepted(q) /\ Answered(q) /\ q.status = 200
  /\ ~NoChatId(q.body) /\ StoredIn(chats, q.body.chat_id)

UserEntry(q) == [chat_id |-> q.body.chat_id, role |-> "user", content |-> q.body.message]
AssistantEntry(q) == [chat_id |-> q.body.chat_id, role |-> "assistant", content |-> q.resBody.response]

\* C2 as claimed: once a POST /chat with message m on a stored chat c is
\* answered with response r, the history of c is the history before the request
\* followed by (user, m) and (assistant, r).
C2_Original ==
  \A r \in Reqs :
    LET q == req[r]
    IN OnStoredChat(q)
       => StoredHistory(q.body.chat_id) = q.before \o <<UserEntry(q), AssistantEntry(q)>>

\* C2 as amended: the history of c is the history before the request, unchanged,
\* followed by (user, m) when that insert succeeded and then by (assistant, r)
\* when that insert succeeded.
C2_AppendsToHistory ==
  \A r \in Reqs :
    LET q == req[r]
    IN OnStoredChat(q)
       => StoredHistory(q.body.chat_id) =
            q.before
            \o (IF q.db.insertUser = "ok" THEN <<UserEntry(q)>> ELSE << >>)
            \o (IF q.db.insertAssistant = "ok" THEN <<AssistantEntry(q)>> ELSE << >>)

\* A request on a chat with a stored history has appended both of its messages.
C2_Witness ==
  \E r \in Reqs :
    /\ OnStoredChat(req[r]) /\ Len(req[r].before) >= 2
    /\ req[r].db.insertUser = "ok" /\ req[r].db.insertAssistant = "ok"
    /\ Len(StoredHistory(req[r].body.chat_id)) = Len(req[r].before) + 2

----------------------------------------------------------------------------
(* C3 *)

Providers == {"serpapi.search", "kimi.completion", "hf.completion"}

\* The provider calls of a request, in order.
ProviderCalls(q) == SelectSeq(q.calls, LAMBDA c : c \in Providers)

\* C3: a request with webSearch true runs the web-search flow (the search, when
\* a key is configured, then the synthesis model) and never the standard flow;
\* any other request runs the standard flow and calls neither the search API
\* nor the synthesis model; an answered request has run exactly one flow.
C3_ExclusiveBranch ==
  \A r \in Reqs :
    LET q == req[r]
    IN Accepted(q) =>
         /\ WantsSearch(q.body) =>
              /\ q.pc # "model"
              /\ "runLangGraph" \notin Range(q.flows)
              /\ "hf.completion" \notin Range(q.calls)
              /\ Answered(q) =>
                   /\ q.flows = <<"handleWebSearchFlow">>
                   /\ ProviderCalls(q) = IF SERP_API_KEY THEN <<"serpapi.search", "kimi.completion">>
                                         ELSE <<"kimi.completion">>
         /\ ~WantsSearch(q.body) =>
              /\ q.pc \notin {"search", "synthesis"}
              /\ "handleWebSearchFlow" \notin Range(q.flows)
              /\ "serpapi.search" \notin Range(q.calls)
              /\ "kimi.completion" \notin Range(q.calls)
              /\ Answered(q) =>
                   /\ q.flows = <<"runLangGraph">>
                   /\ ProviderCalls(q) = IF HF_API_KEY THEN <<"hf.completion">> ELSE << >>

\* A request with webSearch true has been answered after the search and the synthesis.
C3_Witness ==
  \E r \in Reqs :
    /\ Accepted(req[r]) /\ Answered(req[r]) /\ WantsSearch(req[r].body)
    /\ ProviderCalls(req[r]) = <<"serpapi.search", "kimi.completion">>

----------------------------------------------------------------------------
(* C4 *)

\* The sources the search of request q extracted.
ExtractedSources(q) ==
  IF "sources" \in DOMAIN q.searchResult THEN q.searchResult.sources ELSE << >>

\* The sources section as the claim describes it: one line per source, in
\* order, numbered from 1.
NumberedLine(n, s) ==
  ToString(n) \o ". ["
  \o (IF "title" \in DOMAIN s THEN s.title ELSE "undefined") \o "]("
  \o (IF "link" \in DOMAIN s THEN s.link ELSE "undefined") \o ")\n"

SourcesSection(sources) ==
  "\n\n---\n### Sources\n" \o Join([n \in DOMAIN sources |-> NumberedLine(n, sources[n])], "")

\* The answers of the synthesis model.
ModelAnswers ==
  {"Failed to generate response."}
  \cup {c.choices[1].message.content :
          c \in {k \in CompletionOutcomes : ~k.throws /\ Len(k.choices) > 0}}

\* An answered request of the web-search branch.
WebAnswered(q) == Accepted(q) /\ Answered(q) /\ q.status = 200 /\ WantsSearch(q.body)

\* C4 as claimed: with at least one source the response is the model's answer
\* followed by the sources section, and without sources it has no such section.
C4_Original ==
  \A r \in Reqs :
    LET q == req[r]
        sources == ExtractedSources(q)
    IN WebAnswered(q) =>
         /\ Len(sources) >= 1 =>
              \E a \in ModelAnswers : q.resBody.response = a \o SourcesSection(sources)
         /\ Len(sources) = 0 => ~Contains(q.resBody.response, "### Sources")

\* C4 as amended: the sources section follows the model's answer when there are
\* sources and the synthesis call returned; without sources, or when the
\* synthesis call failed, the response has no sources section.
C4_SourcesAppended ==
  \A r \in Reqs :
    LET q == req[r]
        sources == ExtractedSources(q)
    IN WebAnswered(q) =>
         /\ Len(sources) >= 1 /\ q.ext.model # "throw" =>
              \E a \in ModelAnswers : q.resBody.response = a \o SourcesSection(sources)
         /\ Len(sources) = 0 \/ q.ext.model = "throw" =>
              ~Contains(q.resBody.response, "### Sources")

\* A web-search request with two sources has been answered by the model.
C4_Witness ==
  \E r \in Reqs :
    /\ WebAnswered(req[r]) /\ Len(ExtractedSources(req[r])) >= 2
    /\ req[r].ext.model = "ok"
    /\ Contains(req[r].resBody.response, "2. [")

----------------------------------------------------------------------------
(* C5 *)

\* A POST /smart-prompt with a prompt whose model call returned.
C5_Asked == sp # Null /\ Truthy(sp.body, "prompt") /\ ~sp.completion.throws

\* JSON can be read from the text: as it is, without its code fences, or from
\* its first { to its last }.
Recoverable(text) ==
  \/ JsonParse(text).ok
  \/ JsonParse(StripFences(text)).ok
  \/ FirstObject(text) # << >> /\ JsonParse(FirstObject(text)).ok

\* C5: whatever content the optimization model returns, POST /smart-prompt
\* answers 200 and never an error status, and when the content is malformed
\* JSON (no JSON can be read from it) optimizedPrompt is the request's prompt.
C5_FallsBackToOriginal ==
  C5_Asked =>
    /\ sp.status = 200
    /\ ~Recoverable(RawContent(sp.completion)) => sp.resBody.optimizedPrompt = sp.body.prompt

----------------------------------------------------------------------------
(* C6 *)

\* C6: every POST /chat answered with status 200, in the standard branch and in
\* the web-search branch, returns a usage object with numeric input_tokens and
\* output_tokens.
C6_UsageNormalized ==
  \A r \in Reqs :
    LET q == req[r]
    IN Accepted(q) /\ Answered(q) /\ q.status = 200
       => /\ {"input_tokens", "output_tokens"} \subseteq DOMAIN q.resBody.usage
          /\ q.resBody.usage.input_tokens \in Nat
          /\ q.resBody.usage.output_tokens \in Nat

----------------------------------------------------------------------------
(* C7 *)

\* An external call of request q failed: the search request, the synthesis or
\* the standard model call, or the model's output was empty.
ProviderFailed(q) ==
  q.ext.search \in {"throw", "error"} \/ q.ext.model \in {"throw", "empty"}

\* C7: a POST /chat of which an external call failed (the search request, the
\* synthesis model call, the standard model call, or an empty model output) is
\* answered with status 200 and a body {chat_id, response, usage} whose
\* response is a non-empty string, never with status 500.
C7_ProviderErrorsAnswered ==
  \A r \in Reqs :
    LET q == req[r]
    IN Accepted(q) /\ Answered(q) /\ ProviderFailed(q)
       => /\ q.status = 200
          /\ DOMAIN q.resBody = {"chat_id", "response", "usage"}
          /\ q.resBody.response # ""

\* A request whose search request and synthesis call both failed has been
\* answered.
C7_Witness ==
  \E r \in Reqs :
    /\ Accepted(req[r]) /\ Answered(req[r]) /\ req[r].status = 200
    /\ req[r].ext.search = "throw" /\ req[r].ext.model = "throw"

----------------------------------------------------------------------------
(* C8 *)

\* The conversation that holds just the current user message.
JustTheMessage(q) == << [role |-> "user", content |-> q.body.message] >>

\* C8: a database error during POST /chat does not fail the request: when
\* creating the chat fails the request continues with a local- identifier,
\* when reading the history fails the conversation given to the model is just
\* the current user message, and a request of which a query failed is still
\* answered with status 200 and the generated response.
C8_DatabaseErrorsDegrade ==
  \A r \in Reqs :
    LET q == req[r]
        failed == \E k \in {"create", "insertUser", "history", "insertAssistant"} : q.db[k] = "error"
    IN Accepted(q) =>
         /\ q.db.create = "error" => StartsWith(q.chat_id, "local-")
         /\ q.db.history = "error" => q.conversation = JustTheMessage(q)
         /\ failed => q.status # 500
         /\ failed /\ Answered(q) =>
              /\ q.status = 200
              /\ q.resBody.response = q.assistantResponse
              /\ q.resBody.response # ""
              /\ q.db.create = "error" => StartsWith(q.resBody.chat_id, "local-")

\* A request whose chat could not be created, whose inserts and whose history
\* query failed, has been answered.
C8_Witness ==
  \E r \in Reqs :
    /\ Accepted(req[r]) /\ Answered(req[r]) /\ req[r].status = 200
    /\ req[r].db = [create |-> "error", insertUser |-> "error", history |-> "error",
                    insertAssistant |-> "error", select |-> "none"]
    /\ req[r].conversation = JustTheMessage(req[r])

----------------------------------------------------------------------------
(* C9 *)

IsGet(q) == q.kind \in {"GET /chat/:id", "GET /chats"}

\* The empty list of the endpoint.
EmptyList(q) == IF q.kind = "GET /chats" THEN [chats |-> << >>] ELSE [messages |-> << >>]

C9_Answer ==
  \A r \in Reqs :
    LET q == req[r]
    IN IsGet(q) =>
         /\ Answered(q) /\ q.status = 200
         /\ q.db.select \in {"none", "error", "throw"} => q.resBody = EmptyList(q)

C9_Frame ==
  \A r \in Reqs :
    IsGet(req'[r]) /\ req'[r] # req[r] => chats' = chats /\ messages' = messages

\* C9: GET /chat/:id and GET /chats always answer with status 200; when the
\* database is not configured, returns an error, or throws, the body is the
\* empty list; and serving them changes no stored chat and no stored message.
C9_GetNeverFails == [](C9_Answer) /\ [][C9_Frame]_vars

\* GET /chat/:id of a chat with stored messages has been answered with the
\* empty list because the query threw.
C9_Witness ==
  \E r \in Reqs :
    /\ req[r].kind = "GET /chat/:id" /\ Answered(req[r])
    /\ req[r].db.select = "throw"
    /\ StoredHistory(req[r].body.id) # << >>
    /\ req[r].resBody = [messages |-> << >>]

----------------------------------------------------------------------------
(* C10 *)

C10_Answer ==
  \A r \in Reqs :
    LET q == req[r]
    IN /\ IsChat(q) /\ NoMessage(q.body) =>
            /\ Answered(q) /\ q.status = 400
            /\ q.resBody = [error |-> "Message is required"]
            /\ q.calls = << >> /\ q.flows = << >>
       /\ Accepted(q) /\ Answered(q) =>
            /\ {"chat_id", "response", "usage"} \subseteq DOMAIN q.resBody
            /\ ~NoChatId(q.body) => q.resBody.chat_id = q.body.chat_id

C10_Frame ==
  \A r \in Reqs :
    IsChat(req'[r]) /\ NoMessage(req'[r].body) /\ req'[r] # req[r]
      => chats' = chats /\ messages' = messages

\* C10: a POST /chat with a missing or empty message is answered 400 with
\* {error: "Message is required"} and has no effect: no chat is created, no
\* message is stored, no database, model or search call is made.  Every other
\* request is answered with a body holding chat_id, response and usage, whose
\* chat_id is the one the request supplied, when it supplied one.
C10_Validation == [](C10_Answer) /\ [][C10_Frame]_vars

\* A request with an empty message has been rejected while a chat is stored.
C10_Witness ==
  \E r \in Reqs :
    /\ IsChat(req[r]) /\ "message" \in DOMAIN req[r].body /\ req[r].body.message = ""
    /\ req[r].status = 400 /\ Len(chats) >= 1

----------------------------------------------------------------------------
(* C11 *)

IsPrefix(s, t) == Len(s) <= Len(t) /\ SubSeq(t, 1, Len(s)) = s

\* The external calls of an accepted request, in the order of the chain: the
\* database calls are made with a configured client, the search with a SerpApi
\* key and the standard model call with a Hugging Face token.
ExpectedCalls(q) ==
  (IF supabase /\ NoChatId(q.body) THEN <<"chats.insert">> ELSE << >>)
  \o (IF supabase THEN <<"messages.insert", "messages.select">> ELSE << >>)
  \o (IF WantsSearch(q.body)
      THEN (IF SERP_API_KEY THEN <<"serpapi.search">> ELSE << >>) \o <<"kimi.completion">>
      ELSE (IF HF_API_KEY THEN <<"hf.completion">> ELSE << >>))
  \o (IF supabase THEN <<"messages.insert">> ELSE << >>)

\* The steps of the handler that have run by the time the assistant message is stored.
BeforeAssistantInsert(q) ==
  (IF WantsSearch(q.body) THEN q.flows = <<"handleWebSearchFlow">> /\ q.ext.model # "none"
   ELSE q.flows = <<"runLangGraph">>)
  /\ q.assistantResponse # ""

C11_Chain ==
  \A r \in Reqs :
    LET q == req[r]
    IN Accepted(q) =>
         /\ IsPrefix(q.calls, ExpectedCalls(q))
         /\ q.pc = "insertAssistant" \/ Answered(q) => BeforeAssistantInsert(q)
         /\ Answered(q) => q.calls = ExpectedCalls(q)
         /\ q.status # 0 => Answered(q)

C11_OneAtATime ==
  \A r \in Reqs :
    /\ IsChat(req'[r]) /\ req[r].pc # "idle" =>
         /\ Len(req'[r].calls) <= Len(req[r].calls) + 1
         /\ IsPrefix(req[r].calls, req'[r].calls)
    /\ (\E i \in DOMAIN messages' : i > Len(messages) /\ messages'[i].role = "assistant")
         /\ req'[r] # req[r]
       => req[r].pc = "insertAssistant" /\ BeforeAssistantInsert(req[r])

\* C11: a POST /chat makes its external calls one after the other, each step of
\* the handler adding at most one call, in the order (create chat) -> store
\* user message -> read history -> model, or search then model -> store
\* assistant message -> response; the assistant message is stored only after
\* the response flow has finished, and the response is sent only once every
\* call of the chain, the assistant insert last, has been made.
C11_SequentialChain == [](C11_Chain) /\ [][C11_OneAtATime]_vars

\* A request has been answered after the whole chain of six calls.
C11_Witness ==
  \E r \in Reqs :
    /\ Accepted(req[r]) /\ Answered(req[r])
    /\ req[r].calls = <<"chats.insert", "messages.insert", "messages.select",
                        "serpapi.search", "kimi.completion", "messages.insert">>

----------------------------------------------------------------------------
(* C12 *)

C12_Integrity ==
  \A i \in DOMAIN messages :
    /\ StoredIn(chats, messages[i].chat_id)
    /\ messages[i].role \in {"user", "assistant"}

C12_AppendOnly == IsPrefix(messages, messages') /\ IsPrefix(chats, chats')

\* C12: in every reachable state every stored message references a stored chat
\* and has role user or assistant, and no step of any endpoint deletes,
\* reorders or changes a stored message or chat: each step leaves the tables as
\* they were or appends to them.
C12_HistoryIntegrity == [](C12_Integrity) /\ [][C12_AppendOnly]_vars

\* A request on an id of no stored chat has been answered, its inserts
\* rejected, while the messages of an earlier request are stored.
C12_Witness ==
  \E r \in Reqs :
    /\ Accepted(req[r]) /\ Answered(req[r]) /\ req[r].status = 200
    /\ ~NoChatId(req[r].body) /\ ~StoredIn(chats, req[r].body.chat_id)
    /\ req[r].db.insertUser = "error" /\ req[r].db.insertAssistant = "error"
    /\ Len(messages) >= 2

----------------------------------------------------------------------------
(* C13 *)

\* The role and content of the stored messages of chat c, in creation order.
Replayed(c) ==
  LET h == StoredHistory(c)
  IN [i \in DOMAIN h |-> [role |-> h[i].role, content |-> h[i].content]]

\* C13: GET /chat/:id answers with exactly the stored messages of the requested
\* chat, every one of that chat, in creation order; and the conversation POST
\* /chat reads for the model is the stored history of its chat in the same
\* order.
C13_HistoryInOrder ==
  \A r \in Reqs :
    LET q == req[r]
    IN /\ q.kind = "GET /chat/:id" /\ q.db.select = "ok" =>
            /\ q.resBody.messages = StoredHistory(q.body.id)
            /\ \A i \in DOMAIN q.resBody.messages : q.resBody.messages[i].chat_id = q.body.id
       /\ Accepted(q) /\ q.pc \in {"search", "model"} /\ q.db.history = "ok" =>
            q.conversation = Replayed(q.chat_id)

\* GET /chat/:id has answered with the user message and the assistant message
\* of a chat.
C13_Witness ==
  \E r \in Reqs :
    /\ req[r].kind = "GET /chat/:id" /\ req[r].db.select = "ok"
    /\ Len(req[r].resBody.messages) = 2
    /\ req[r].resBody.messages[1].role = "user"
    /\ req[r].resBody.messages[2].role = "assistant"

----------------------------------------------------------------------------
(* C14 *)

EndsWith(text, suffix) ==
  Len(text) >= Len(suffix) /\ SubSeq(text, Len(text) - Len(suffix) + 1, Len(text)) = suffix

\* An accepted request that has sent its request to the model.
HasSent(q) == Accepted(q) /\ q.sent # Null

\* The model request of q carries the instruction text: as the length
\* constraint that ends the system message in the standard branch, as
\* instruction 3 of the prompt in the web-search branch.
Instructs(q, text) ==
  IF WantsSearch(q.body)
  THEN EndsWith(q.sent.messages[2].content,
                "\n    3. " \o text \o "\n    4. Format nicely with Markdown.\n    ")
  ELSE EndsWith(q.sent.messages[1].content, "**LENGTH CONSTRAINT**: " \o text)

\* The token ceiling each branch sends with depth d.
StandardCeiling(d) == StandardRequest(<< >>, d).max_tokens
SynthesisCeiling(d) == SynthesisRequest("", "", d).max_tokens

\* C14: each of the four depth labels has its own instruction and its own
\* token ceiling: the request sent to the model with depth d carries the
\* instruction of d and of no other label, and a max_tokens that no other
\* label is sent with, the same in the standard and in the web-search branch.
C14_DepthMapping ==
  \A r \in Reqs :
    LET q == req[r]
    IN HasSent(q) /\ q.depth \in DepthLabels =>
         /\ \A d \in DepthLabels : Instructs(q, depthInstructions[d]) <=> d = q.depth
         /\ q.sent.max_tokens = StandardCeiling(q.depth)
         /\ q.sent.max_tokens = SynthesisCeiling(q.depth)
         /\ \A d \in DepthLabels \ {q.depth} :
              /\ q.sent.max_tokens # StandardCeiling(d)
              /\ q.sent.max_tokens # SynthesisCeiling(d)

----------------------------------------------------------------------------
(* C15 *)

ShortInstruction ==
  "IMPORTANT CONSTRAINT: Keep your response short and to the point, approximately 200-300 words."

\* The body carries no depth, or a depth that is none of the four labels.
NoDepthLabel(body) ==
  "depth" \notin DOMAIN body \/ body.depth \notin {"Concise", "Short", "Medium", "Large"}

NextSources == Serve(DbResolved, SourceSearchOutcomes)

SpecSources == InitSearch /\ [][NextSources]_vars

\* Requests served concurrently: Node starts the handler of a request as soon
\* as it arrives, between any two awaits of the handlers in progress, whose
\* locals stay alive.
ArrivesConcurrently(r) ==
  /\ served < MaxReq
  /\ r = served + 1
  /\ served' = r

\* The bodies of the concurrent requests: a message, with or without a chat_id.
ConcurrentBodies ==
  { Pick([chat_id |-> c, message |-> "Hello"], S) :
      c \in ChatIdInputs, S \in {{"message"}, {"chat_id", "message"}} }

\* The request is read and validated while other requests are in progress.
ReceiveChatConcurrent(r) ==
  /\ ArrivesConcurrently(r)
  /\ \E body \in ConcurrentBodies : req' = [req EXCEPT ![r] =
       LET q == [IdleReq EXCEPT !.kind = "POST /chat", !.body = body]
       IN IF MessageMissing(body)
          THEN Respond(q, 400, [error |-> "Message is required"])
          ELSE [q EXCEPT !.pc = "session",
                         !.chat_id = BodyChatId(body),
                         !.depth = BodyDepth(body),
                         !.before = MessagesOf(messages, BodyChatId(body))]]
  /\ UNCHANGED <<supabase, HF_API_KEY, SERP_API_KEY, chats, messages, clock, sp, ui>>

\* POST /chat requests of the standard branch, served concurrently: every
\* await of a handler is a point where another handler can run.
NextConcurrent ==
  \E r \in Reqs :
    \/ ReceiveChatConcurrent(r)
    \/ CreateChat(r, DbResolved)
    \/ InsertUser(r, DbResolved)
    \/ LoadHistory(r, DbResolved)
    \/ StandardModel(r)
    \/ InsertAssistant(r, DbResolved)

SpecConcurrent == Init /\ [][NextConcurrent]_vars
----------------------------------------------------------------------------
(* C16 *)

\* The text of a block: the first non-empty of snippet, title and text.
FirstText(b) ==
  LET has(k) == k \in DOMAIN b /\ b[k] # ""
  IN IF has("snippet") THEN b.snippet
     ELSE IF has("title") THEN b.title
     ELSE IF has("text") THEN b.text
     ELSE ""

RECURSIVE NonEmpty(_)
\* The non-empty texts of a sequence of texts, in order.
NonEmpty(texts) ==
  IF texts = << >> THEN << >>
  ELSE IF Head(texts) = "" THEN NonEmpty(Tail(texts))
  ELSE <<Head(texts)>> \o NonEmpty(Tail(texts))

\* The chunks of the search data: those of the text blocks and, when there is
\* none, the snippets of the organic results.
TextChunks(data) ==
  LET blocks == IF "text_blocks" \in DOMAIN data THEN data.text_blocks ELSE << >>
      organic == IF "organic_results" \in DOMAIN data THEN data.organic_results ELSE << >>
      fromBlocks == NonEmpty([i \in DOMAIN blocks |-> FirstText(blocks[i])])
  IN IF fromBlocks # << >> THEN fromBlocks
     ELSE NonEmpty([j \in DOMAIN organic |->
                      IF "snippet" \in DOMAIN organic[j] THEN organic[j].snippet ELSE ""])

RECURSIVE Paragraphs(_)
Paragraphs(chunks) ==
  IF chunks = << >> THEN ""
  ELSE Head(chunks) \o (IF Len(chunks) > 1 THEN "\n\n" ELSE "") \o Paragraphs(Tail(chunks))

\* The first 15 chunks of the search data, in order, as paragraphs.
First15(data) ==
  LET chunks == TextChunks(data)
  IN Paragraphs([i \in 1..(IF Len(chunks) > 15 THEN 15 ELSE Len(chunks)) |-> chunks[i]])

\* A web-search request whose search returned data.
Searched(q) ==
  /\ Accepted(q) /\ q.found # Null /\ "error" \notin DOMAIN q.found
  /\ q.pc \in {"synthesis", "insertAssistant", "done"}

\* C16: the search context is made of the first 15 chunks of the search result
\* at most, in their order, the chunks being the first non-empty of snippet,
\* title and text of each text block or, when no block gives a chunk, the
\* snippets of the organic results; that context is the one in the prompt sent
\* to the synthesis model (the no-results text standing in for an empty one).
C16_ContextOfFirst15 ==
  \A r \in Reqs :
    LET q == req[r]
        context == First15(q.found)
    IN Searched(q) =>
         /\ q.searchResult.context = context
         /\ q.sent # Null =>
              StartsWith(q.sent.messages[2].content,
                         "\n    ### USER QUERY:\n    " \o q.body.message
                         \o "\n\n    ### WEB SEARCH CONTEXT:\n    "
                         \o (IF context = ""
                             THEN "No web results found. Please answer based on your general knowledge."
                             ELSE context)
                         \o "\n\n    ### INSTRUCTIONS:")

\* The search returned more than 15 text blocks with a snippet and the prompt
\* has been sent with the first 15.
C16_Witness ==
  \E r \in Reqs :
    /\ Searched(req[r]) /\ req[r].sent # Null
    /\ "text_blocks" \in DOMAIN req[r].found
    /\ Len(req[r].found.text_blocks) > 15
    /\ Len(TextChunks(req[r].found)) > 15
    /\ req[r].searchResult.context = First15(req[r].found)

----------------------------------------------------------------------------
(* C17 *)

\* The token count of a text.
Tokens(text) == (Len(text) + 3) \div 4

\* C17: POST /smart-prompt answers 400 when the prompt is missing or empty, 500
\* {error: "Failed to analyze prompt"} when the model call fails, and otherwise
\* 200 with the four fields issues, optimizedPrompt, originalTokens and
\* optimizedTokens: issues is a list, originalTokens counts the tokens of the
\* prompt and optimizedTokens those of optimizedPrompt.
C17_SmartPromptAnswers ==
  sp # Null =>
    IF "prompt" \notin DOMAIN sp.body \/ sp.body.prompt = ""
    THEN sp.status = 400
    ELSE IF sp.completion.throws
    THEN sp.status = 500 /\ sp.resBody = [error |-> "Failed to analyze prompt"]
    ELSE /\ sp.status = 200
         /\ DOMAIN sp.resBody = {"issues", "optimizedPrompt", "originalTokens", "optimizedTokens"}
         /\ sp.resBody.issues \in Seq(STRING)
         /\ sp.resBody.originalTokens = Tokens(sp.body.prompt)
         /\ sp.resBody.optimizedTokens = Tokens(sp.resBody.optimizedPrompt)

----------------------------------------------------------------------------
(* C18 *)

\* C18: once the backend has answered the Smart Prompt request of the user with
\* an optimized prompt, the input box holds the optimized text, without a
\* further action of the user.
C18_InputUpdated ==
  ui.last = "answer" /\ ui.smartPromptData # Null
    => ui.input = ui.smartPromptData.optimizedPrompt

----------------------------------------------------------------------------
(* C19 *)

\* C19: GET /chats answers with at most 20 chats, the most recently created
\* ones, the newest first: entry i of the list is the i-th newest stored chat.
C19_Newest20 ==
  \A r \in Reqs :
    LET q == req[r]
        n == Len(chats)
    IN q.kind = "GET /chats" /\ q.db.select = "ok" =>
         /\ Len(q.resBody.chats) <= 20
         /\ Len(q.resBody.chats) = IF n > 20 THEN 20 ELSE n
         /\ \A i \in DOMAIN q.resBody.chats : q.resBody.chats[i] = chats[n + 1 - i]

\* GET /chats has answered with 20 chats while more are stored.
C19_Witness ==
  \E r \in Reqs :
    /\ req[r].kind = "GET /chats" /\ req[r].db.select = "ok"
    /\ Len(chats) > 20 /\ Len(req[r].resBody.chats) = 20
    /\ req[r].resBody.chats[1] = chats[Len(chats)]

----------------------------------------------------------------------------
(* C20 *)

RECURSIVE TokenSum(_)
\* The sum of the token counts of the messages of a conversation.
TokenSum(conversation) ==
  IF conversation = << >> THEN 0
  ELSE Tokens(conversation[1].content) + TokenSum(Tail(conversation))

\* An answered request of the standard branch.
StandardAnswered(q) ==
  Accepted(q) /\ Answered(q) /\ q.status = 200 /\ ~WantsSearch(q.body)

\* The text the agent node produces for each outcome of the model call.
AgentText(q) ==
  IF q.ext.model = "ok" THEN "Hello there"
  ELSE IF q.ext.model = "empty"
  THEN "I apologize, but I received an empty response from the AI model. Please try again."
  ELSE IF q.ext.model = "throw"
  THEN "Error calling AI Model: fetch failed. Please check your API key and connection."
  ELSE "Error: Hugging Face Access Token is missing. Please check your .env file."

\* C20: in the standard branch the usage returned is input_tokens = the sum of
\* the token counts of the messages of the conversation sent to the model, the
\* system prompt not counted, and output_tokens = the token count of the
\* response, also when it is an error or apology text; the response is the
\* message the agent node produced, the last of the final state of the graph.
C20_StandardUsage ==
  \A r \in Reqs :
    LET q == req[r]
    IN StandardAnswered(q) =>
         /\ q.resBody.usage = [input_tokens |-> TokenSum(q.conversation),
                               output_tokens |-> Tokens(q.resBody.response)]
         /\ q.resBody.response = AgentText(q)
         /\ q.sent # Null =>
              /\ Len(q.sent.messages) = Len(q.conversation) + 1
              /\ \A i \in DOMAIN q.conversation : q.sent.messages[i + 1] = q.conversation[i]

\* A request on a chat with a stored exchange has been answered with an error
\* text, its usage counting the three messages of the conversation.
C20_Witness ==
  \E r \in Reqs :
    /\ StandardAnswered(req[r]) /\ Len(req[r].conversation) = 3
    /\ req[r].ext.model = "throw"
    /\ req[r].resBody.usage.input_tokens > Tokens(req[r].body.message)
    /\ req[r].resBody.usage.output_tokens > 0

----------------------------------------------------------------------------
(* C21 *)

\* A request of the standard branch for which generateResponse has returned.
Generated(q) ==
  Accepted(q) /\ ~WantsSearch(q.body) /\ q.pc \in {"insertAssistant", "done"}

\* C21: generateResponse always returns, and never the empty string: without a
\* token it returns the missing-token text and the provider is not called; an
\* empty streamed output gives the apology text; an error thrown by the call
\* or by the stream gives the 'Error calling AI Model' text; otherwise the
\* result is the content of the streamed chunks, concatenated in arrival order.
C21_GenerateResponse ==
  \A r \in Reqs :
    LET q == req[r]
        text == q.assistantResponse
    IN /\ Accepted(q) /\ q.pc = "model" => ENABLED StandardModel(r)
       /\ Generated(q) =>
            /\ text # ""
            /\ ~HF_API_KEY =>
                 /\ text = "Error: Hugging Face Access Token is missing. Please check your .env file."
                 /\ "hf.completion" \notin Range(q.calls)
            /\ HF_API_KEY /\ q.ext.model = "empty" =>
                 text = "I apologize, but I received an empty response from the AI model. Please try again."
            /\ HF_API_KEY /\ q.ext.model = "throw" =>
                 text = "Error calling AI Model: fetch failed. Please check your API key and connection."
            /\ HF_API_KEY /\ q.ext.model = "ok" => text = "Hello" \o " there"

\* The standard model has streamed two chunks and generateResponse has returned
\* their contents.
C21_Witness ==
  \E r \in Reqs :
    /\ Generated(req[r]) /\ req[r].ext.model = "ok"
    /\ req[r].assistantResponse = "Hello there"
    /\ "hf.completion" \in Range(req[r].calls)

----------------------------------------------------------------------------
(* C22 *)

\* The list under key k of the search data, empty when the key is absent.
ListOf(data, k) == IF k \in DOMAIN data THEN data[k] ELSE << >>

\* The smaller of two numbers.
Min(a, b) == IF a < b THEN a ELSE b

\* The link of an entry, "" when it has none.
LinkOf(e) == IF "link" \in DOMAIN e THEN e.link ELSE ""

\* The link a text block offers: its link, else its source_url, "" when none.
BlockLink(b) ==
  IF "link" \in DOMAIN b /\ b.link # "" THEN b.link
  ELSE IF "source_url" \in DOMAIN b THEN b.source_url ELSE ""

\* C22: performWebSearch returns at most 5 sources; they are the first organic
\* results, or the first references when the organic results gave none; sources
\* of text blocks follow only when fewer than 3 sources were found, and each of
\* them has a link of a text block that no source before it in the list has.
C22_Sources ==
  \A r \in Reqs :
    LET q == req[r]
        src == q.searchResult.sources
        organic == ListOf(q.found, "organic_results")
        refs == ListOf(q.found, "references")
        blocks == ListOf(q.found, "text_blocks")
        nOrganic == Min(Len(organic), 5)
        nRefs == IF nOrganic = 0 THEN Min(Len(refs), 5) ELSE 0
        found == nOrganic + nRefs
    IN Searched(q) =>
         /\ Len(src) <= 5
         /\ Len(src) >= found
         /\ \A i \in 1..nOrganic :
              /\ LinkOf(src[i]) = LinkOf(organic[i])
              /\ src[i].title = organic[i].title
         /\ \A i \in 1..nRefs :
              /\ LinkOf(src[i]) = LinkOf(refs[i])
              /\ src[i].title = (IF "title" \in DOMAIN refs[i] THEN refs[i].title ELSE refs[i].source)
         /\ Len(src) > found => found < 3
         /\ \A i \in (found + 1)..Len(src) :
              /\ LinkOf(src[i]) # ""
              /\ \E b \in DOMAIN blocks : BlockLink(blocks[b]) = LinkOf(src[i])
              /\ \A j \in 1..(i - 1) : LinkOf(src[j]) # LinkOf(src[i])

\* Two organic results were found and text blocks added sources to them, one
\* block being skipped for a link the list already had.
C22_Witness ==
  \E r \in Reqs :
    LET q == req[r]
    IN /\ Searched(q)
       /\ Len(ListOf(q.found, "organic_results")) = 2
       /\ Len(ListOf(q.found, "text_blocks")) = MaxLinked
       /\ Len(q.searchResult.sources) = 5
       /\ LinkOf(q.searchResult.sources[1]) = BlockLink(q.found.text_blocks[1])
       /\ LinkOf(q.searchResult.sources[3]) = "https://z.example/2"

----------------------------------------------------------------------------
(* C23 *)

\* C23: in the standard branch the conversation passed to the model is never
\* empty and its last entry is the user message of the current request, for
\* every accepted request, whatever the database did.
C23_ConversationEndsWithMessage ==
  \A r \in Reqs :
    LET q == req[r]
    IN Generated(q) =>
         /\ q.conversation # << >>
         /\ q.conversation[Len(q.conversation)] = [role |-> "user", content |-> q.body.message]

----------------------------------------------------------------------------
(* C24 *)

\* C24: the assistant message stored for a request holds exactly the response
\* string returned to the client, whatever that string is (a model answer, an
\* answer with its sources section, a provider-error or apology text); the
\* assistant entries replayed to the model on a later turn are such stored
\* contents.
C24_StoredIsReturned ==
  \A r \in Reqs :
    LET q == req[r]
    IN /\ Answered(q) /\ q.status = 200 /\ q.kind = "POST /chat" /\ q.db.insertAssistant = "ok" =>
            /\ messages # << >>
            /\ messages[Len(messages)] =
                 [chat_id |-> q.resBody.chat_id, role |-> "assistant", content |-> q.resBody.response]
       /\ Accepted(q) /\ q.pc \in {"search", "model"} /\ q.db.history = "ok" =>
            \A i \in DOMAIN q.conversation :
              q.conversation[i].role = "assistant" =>
                \E j \in DOMAIN messages :
                  /\ messages[j].chat_id = q.chat_id /\ messages[j].role = "assistant"
                  /\ messages[j].content = q.conversation[i].content

\* A provider-error text was stored as the assistant message of a chat and is
\* replayed in the conversation of the next request on that chat.
C24_Witness ==
  \E r \in Reqs :
    LET q == req[r]
    IN /\ Accepted(q) /\ q.pc = "model" /\ q.db.history = "ok"
       /\ \E i \in DOMAIN q.conversation :
            /\ q.conversation[i].role = "assistant"
            /\ StartsWith(q.conversation[i].content, "Error calling AI Model")
       /\ \E j \in DOMAIN messages :
            /\ messages[j].chat_id = q.chat_id /\ messages[j].role = "assistant"
            /\ StartsWith(messages[j].content, "Error calling AI Model")

----------------------------------------------------------------------------
(* C25 *)

\* The database is configured and every query of every request succeeded.
WorkingDatabase ==
  /\ supabase
  /\ \A r \in Reqs : \A k \in DOMAIN req[r].db : req[r].db[k] \in {"none", "ok"}

\* The entries of h are a user entry, an assistant entry, a user entry, ...
Alternates(h) ==
  \A i \in DOMAIN h : h[i].role = (IF i % 2 = 1 THEN "user" ELSE "assistant")

\* C25: with a working database, whatever the interleaving of the requests,
\* the stored history of every chat alternates user, assistant, user, ...
\* starting with user, and the conversation a request replays to the model
\* ends with exactly one unanswered user message.
C25_Alternation ==
  WorkingDatabase =>
    /\ \A c \in Range(chats) : Alternates(StoredHistory(c))
    /\ \A r \in Reqs :
         LET q == req[r]
             n == Len(q.conversation)
         IN Generated(q) =>
              /\ n >= 1
              /\ q.conversation[n].role = "user"
              /\ n >= 2 => q.conversation[n - 1].role = "assistant"

----------------------------------------------------------------------------
(* C26 *)

\* A POST /chat without chat_id that has been given the id of its session.
Allocated(q) ==
  /\ Accepted(q) /\ NoChatId(q.body)
  /\ q.pc \notin {"idle", "session"} /\ q.chat_id # ""

\* C26: two different requests without chat_id, one after the other or
\* concurrent, never receive the same chat id, ids of the local fallback
\* included.
C26_DistinctChatIds ==
  \A r1, r2 \in Reqs :
    r1 # r2 /\ Allocated(req[r1]) /\ Allocated(req[r2]) => req[r1].chat_id # req[r2].chat_id

----------------------------------------------------------------------------
(* C30 *)

\* C30: once the mount effect has run, whatever loadMessages, startNewChat and
\* sendMessage did since, the chat id stored under 'sanyai_chat_id' is
\* currentChatId, and there is none exactly when currentChatId is null.
C30_StoredIsCurrent ==
  ui.mounted => ui.localStorage = ui.currentChatId

\* A message sent in a new chat has been answered: the id the server
\* allocated is the current one and the stored one.
C30_Witness ==
  /\ ui.mounted /\ ui.last = "reply"
  /\ \E s \in Sends :
       /\ ui.posts[s].pc = "done" /\ ui.posts[s].chat_id = ""
       /\ ui.currentChatId = Uuid(1 + s) /\ ui.localStorage = Uuid(1 + s)

----------------------------------------------------------------------------
(* C27 *)

\* Send s finishes in this step: the outcome of its request is handled.
Finishes(s) == ui.posts[s].pc = "inflight" /\ ui'.posts[s].pc = "done"

\* C27: the assistant or error message of a send is appended only to the list
\* of the chat the message was sent in: when another chat was selected or a
\* new chat started while the request was in flight, the late outcome adds
\* nothing to the list now displayed and leaves currentChatId as selected.
C27_LateResponse ==
  [][\A s \in Sends :
       Finishes(s) /\ ui.posts[s].switched =>
         /\ ui'.messages = ui.messages
         /\ ui'.currentChatId = ui.currentChatId]_vars

----------------------------------------------------------------------------
(* C28 *)

\* The sends whose POST /chat is in flight.
InFlight == {s \in Sends : ui.posts[s].pc = "inflight"}

\* C28: sendMessage issues no POST /chat when the input is blank or isLoading
\* is true; at most one chat request is in flight at any time; and isLoading
\* is true as long as a chat request is in flight, whatever else is handled.
C28_OneInFlight ==
  /\ [](Cardinality(InFlight) <= 1)
  /\ [](InFlight # {} => ui.isLoading)
  /\ [][\A s \in Sends :
          ui.posts[s].pc = "idle" /\ ui'.posts[s].pc = "inflight" =>
            /\ ui.input # "" /\ \E i \in 1..Len(ui.input) : SubSeq(ui.input, i, i) # " "
            /\ ~ui.isLoading]_vars

----------------------------------------------------------------------------
(* C29 *)

\* The list ends with the user message of send s (its tokens apart) and one
\* message after it.
EndsWithReply(msgs, s, isError) ==
  LET n == Len(msgs)
  IN /\ n >= 2
     /\ msgs[n - 1].role = "user" /\ msgs[n - 1].content = ui.posts[s].message
     /\ msgs[n - 1].id = ToString(s)
     /\ msgs[n].role = "assistant"
     /\ ("isError" \in DOMAIN msgs[n] /\ msgs[n].isError) <=> isError

\* C29: every send that starts a request eventually finishes, with isLoading
\* false and exactly one message appended after the user's message, which is
\* kept in the list: the reply of the assistant on success, one message marked
\* isError on a failure.
C29_SendFinishes ==
  /\ \A s \in Sends : (ui.posts[s].pc = "inflight") ~> (ui.posts[s].pc = "done")
  /\ [][\A s \in Sends :
          Finishes(s) =>
            /\ ~ui'.isLoading
            /\ Len(ui'.messages) = Len(ui.messages) + 1
            /\ \/ EndsWithReply(ui'.messages, s, FALSE)
               \/ EndsWithReply(ui'.messages, s, TRUE)]_vars

====
